---------------------------- MODULE Spec2Model ----------------------------
(***************************************************************************)
(* Web Push broadcast of the push-api worker                               *)
(* (src/workers/push-api/src/index.js).                                    *)
(*                                                                         *)
(* One invocation of POST /api/push/trigger is modelled at the granularity *)
(* of its suspension points: the handler lists the stored subscriptions    *)
(* page by page, starts one asynchronous task per listed key, awaits       *)
(* Promise.all of the page, and answers with the counters.  Each task      *)
(* reads its record, runs encryptPayload and createVapidAuth, POSTs to the *)
(* push service, classifies the answer and deletes an expired record.      *)
(* The tasks of one page interleave freely.                                *)
(*                                                                         *)
(*   Spec      one broadcast over any store the subscribe handler can have *)
(*             produced, store calls that may throw included               *)
(*   SpecConc  the same broadcast with subscribe and unsubscribe requests  *)
(*             handled by the worker while it runs                         *)
(***************************************************************************)
EXTENDS Integers, Sequences, FiniteSets, TLC

(***************************************************************************)
(* Bounds of the model.                                                    *)
(***************************************************************************)
\* Number of distinct endpoints (hence of store keys) considered.
NumSubs == 3
\* Page size of the listing; the worker asks for 100 keys per page
\* (index.js:373); it is scaled down so that a broadcast spans several pages.
PageLimit == 2

\* Number of subscribe/unsubscribe requests handled while a broadcast runs.
MaxClientRequests == 1

(***************************************************************************)
(* Program constants.                                                      *)
(***************************************************************************)
\* rs field of the aes128gcm header (index.js:152).
RecordSize == 4096
\* AES-GCM authentication tag appended by crypto.subtle.encrypt (index.js:144).
TagLen == 16
\* salt(16) + rs(4) + idlen(1) + keyid(65) (index.js:150).
HeaderLen == 86
\* Length of an uncompressed P-256 point, the idlen byte (index.js:153).
PointLen == 65
\* UTF-8 length of notificationPayload without the edition text
\* (index.js:354-361): JSON.stringify of the six fields with edition = "".
PayloadFixedLen == 302
\* 'morning'.length, the default edition (index.js:352).
MorningLen == 7

Endpoints == 1..NumSubs
KeyNames  == 1..NumSubs
NoRecord  == [absent |-> TRUE]
\* cursor = null (index.js:367); key names are positive.
NoCursor  == 0

(***************************************************************************)
(* hashEndpoint: 'sub:' + the first 32 hex digits of SHA-256(endpoint).    *)
(* The digest is abstracted to a collision-free map that does not keep the *)
(* order of the endpoints (key names list in hash order, not in endpoint   *)
(* order).                                                                 *)
(***************************************************************************)
hashEndpoint(endpoint) == (NumSubs + 1) - endpoint

(***************************************************************************)
(* Stored subscription records, as written by POST /api/push/subscribe:    *)
(* any truthy endpoint and any truthy keys object are accepted, so the     *)
(* store can hold keys of any decoded length.                              *)
(*   hasKeys   keys.p256dh and keys.auth are strings                       *)
(*   p256dhLen decoded length of keys.p256dh                               *)
(*   isPoint   the decoded bytes are a point of P-256 in raw form          *)
(*   authLen   decoded length of keys.auth                                 *)
(*   urlOk     endpoint parses as a URL                                    *)
(***************************************************************************)
SubKinds ==
  { [hasKeys |-> TRUE,  p256dhLen |-> 65, isPoint |-> TRUE,  authLen |-> 16, urlOk |-> TRUE],
    [hasKeys |-> TRUE,  p256dhLen |-> 10, isPoint |-> FALSE, authLen |-> 16, urlOk |-> TRUE],
    [hasKeys |-> TRUE,  p256dhLen |-> 65, isPoint |-> TRUE,  authLen |-> 8,  urlOk |-> TRUE],
    [hasKeys |-> FALSE, p256dhLen |-> 0,  isPoint |-> FALSE, authLen |-> 0,  urlOk |-> TRUE],
    [hasKeys |-> TRUE,  p256dhLen |-> 65, isPoint |-> TRUE,  authLen |-> 16, urlOk |-> FALSE] }

Record(endpoint, kind) ==
  [endpoint |-> endpoint, hasKeys |-> kind.hasKeys, p256dhLen |-> kind.p256dhLen,
   isPoint |-> kind.isPoint, authLen |-> kind.authLen, urlOk |-> kind.urlOk]

EndpointOf(name) == CHOOSE e \in Endpoints : hashEndpoint(e) = name

\* The stores the subscribe handler can have produced: the record under a key
\* is a record of the endpoint that hashes to this key.
Stores ==
  { s \in [KeyNames -> {NoRecord} \cup {Record(e, k) : e \in Endpoints, k \in SubKinds}] :
      \A n \in KeyNames : s[n] # NoRecord => s[n].endpoint = EndpointOf(n) }

(***************************************************************************)
(* Bodies of the trigger request.  editionLen is the UTF-8 length of the   *)
(* edition text as it appears in the JSON payload ('evening' has 7 bytes). *)
(* A body that is no JSON is read as {}, which has no edition (length 0).  *)
(***************************************************************************)
EditionLens == {7, 3777, 3778}
Bodies ==
  { [kind |-> "object", editionLen |-> n] : n \in EditionLens }
    \cup { [kind |-> "invalid", editionLen |-> 0], [kind |-> "null", editionLen |-> 0] }

\* Answers of a push service to the POST: the status of the response, or
\* NetworkError for a fetch that rejects (no response, hence no status).
NetworkError == 0
Statuses == {200, 201, 404, 410, 500}
Answers  == Statuses \cup {NetworkError}

VARIABLES
  request,             \* body of the trigger request
  PUSH_SUBSCRIPTIONS,  \* the KV store: key name -> record or NoRecord
  tpc,                 \* position of the trigger handler
  payloadLen,          \* byte length of notificationPayload
  cursor,              \* cursor of the listing loop
  listResult,          \* result of the last list call
  sent, failed, expired,
  response,            \* what the handler answered
  pc,                  \* position of the task of each key
  subData,             \* record read by each task
  posts,               \* POSTs issued per key
  answer,              \* answers received per key, in order
  outcome,             \* branch taken by the task of each key
  cryptoOps,           \* Web Crypto calls made by encryptPayload per key
  wire,                \* the request POSTed per key: body, destination, audience
  deleteCalls,         \* PUSH_SUBSCRIPTIONS.delete calls per key
  listed,              \* key names returned by some list call
  storeErrors,         \* store calls that threw
  clientLeft,          \* subscribe/unsubscribe requests still to come
  clientStatus,        \* status answered to the last such request
  encCalls,            \* calls of encryptPayload made so far, with their results
  hkdfCall,            \* the last call of hkdf, with its result
  vapidCall,           \* the last call of createVapidAuth, with its result
  codecCall,           \* the last base64url encoding and decoding, with results
  clientCalls          \* subscribe/unsubscribe requests handled one after the
                       \* other, and the store they leave

vars == << request, PUSH_SUBSCRIPTIONS, tpc, payloadLen, cursor, listResult,
           sent, failed, expired, response, pc, subData, posts, answer,
           outcome, cryptoOps, wire, deleteCalls, listed, storeErrors,
           clientLeft, clientStatus, encCalls, hkdfCall, vapidCall, codecCall,
           clientCalls >>

clientVars == << clientLeft, clientStatus >>

\* What the byte-level runs of encryptPayload, hkdf and createVapidAuth record.
callVars == << encCalls, hkdfCall, vapidCall, codecCall, clientCalls >>

NoCall == [called |-> FALSE]

NoResponse == [status |-> 0]
NoWire     == [plainLen |-> 0, bodyLen |-> 0]
NoRequest  == [plainLen |-> 0, bodyLen |-> 0, to |-> 0, aud |-> << >>]
NoList     == [keys |-> {}, list_complete |-> TRUE, cursor |-> NoCursor]

(***************************************************************************)
(* encryptPayload (index.js:93-168), as the sequence of Web Crypto calls   *)
(* it makes before it returns or throws.                                   *)
(***************************************************************************)
encryptPayload(subscription, plainLen) ==
  IF ~subscription.hasKeys
  THEN \* base64UrlDecode(undefined) throws a TypeError (index.js:94)
       [ok |-> FALSE, ops |-> << >>, wire |-> NoWire]
  ELSE IF ~subscription.isPoint
  THEN \* importKey('raw', clientPublicKey) throws (index.js:106)
       [ok |-> FALSE, ops |-> << "generateKey", "exportKey", "importKey" >>,
        wire |-> NoWire]
  ELSE [ok |-> TRUE,
        ops |-> << "generateKey", "exportKey", "importKey", "deriveBits",
                   "hkdf", "getRandomValues", "hkdf", "hkdf",
                   "importKey", "encrypt" >>,
        wire |-> [plainLen |-> plainLen,
                  bodyLen  |-> HeaderLen + (plainLen + 1) + TagLen]]

(***************************************************************************)
(* Bytes and text.  A buffer is a sequence of bytes; a string is the       *)
(* sequence of its character codes.  The strings of this program are       *)
(* ASCII, for which TextEncoder().encode gives the codes themselves.       *)
(***************************************************************************)
Zeros(n) == [i \in 1..n |-> 0]

Max(S) == CHOOSE x \in S : \A y \in S : y <= x
Min(S) == CHOOSE x \in S : \A y \in S : x <= y

\* index.js:62-71: the buffers laid one after the other, in the order given.
RECURSIVE concatBuffers(_)
concatBuffers(buffers) ==
  IF buffers = << >> THEN << >>
  ELSE Head(buffers) \o concatBuffers(Tail(buffers))

\* Template literals and JSON.stringify render a number in decimal.
RECURSIVE Decimal(_)
Decimal(n) ==
  IF n < 10 THEN << 48 + n >> ELSE Decimal(n \div 10) \o << 48 + (n % 10) >>

\* The standard base64 alphabet: A-Z a-z 0-9 + /
B64Char(v) ==
  IF v < 26 THEN 65 + v
  ELSE IF v < 52 THEN 97 + (v - 26)
  ELSE IF v < 62 THEN 48 + (v - 52)
  ELSE IF v = 62 THEN 43 ELSE 47

B64Val(c) ==
  IF c >= 65 /\ c <= 90 THEN c - 65
  ELSE IF c >= 97 /\ c <= 122 THEN c - 97 + 26
  ELSE IF c >= 48 /\ c <= 57 THEN c - 48 + 52
  ELSE IF c = 43 THEN 62
  ELSE IF c = 47 THEN 63 ELSE -1

\* btoa: three bytes give four characters; the last group is padded with '='.
btoa(binary) ==
  LET n == Len(binary)
      At(i) == IF i <= n THEN binary[i] ELSE 0
      Triple(k) == At(3 * k + 1) * 65536 + At(3 * k + 2) * 256 + At(3 * k + 3)
      Shift(p) == IF p = 0 THEN 262144 ELSE IF p = 1 THEN 4096
                  ELSE IF p = 2 THEN 64 ELSE 1
  IN  [j \in 1..(4 * ((n + 2) \div 3)) |->
         LET k == (j - 1) \div 4
             p == (j - 1) % 4
         IN  IF p >= 2 /\ 3 * k + p > n THEN 61
             ELSE B64Char((Triple(k) \div Shift(p)) % 64)]

IsAsciiWhitespace(c) == c \in {9, 10, 12, 13, 32}
NotAsciiWhitespace(c) == ~IsAsciiWhitespace(c)

\* atob (forgiving-base64 decode): whitespace is dropped; padding is removed
\* when the length is a multiple of four and is not needed otherwise; a
\* length of 4k+1 or a character outside the alphabet throws; the bits left
\* over after the last whole byte are discarded.
atob(data) ==
  LET s0 == SelectSeq(data, NotAsciiWhitespace)
      n0 == Len(s0)
      cut == IF n0 % 4 = 0 /\ n0 > 0 /\ s0[n0] = 61
             THEN (IF s0[n0 - 1] = 61 THEN 2 ELSE 1)
             ELSE 0
      s == SubSeq(s0, 1, n0 - cut)
      n == Len(s)
      Pair(q) == B64Val(s[q]) * 64 + B64Val(s[q + 1])
      Down(r) == IF r = 0 THEN 16 ELSE IF r = 2 THEN 4 ELSE 1
  IN  IF n % 4 = 1 \/ \E i \in 1..n : B64Val(s[i]) < 0
      THEN [ok |-> FALSE, bytes |-> << >>]
      ELSE [ok |-> TRUE,
            bytes |-> [i \in 1..((n * 6) \div 8) |->
                         LET bit == (i - 1) * 8
                         IN  (Pair(bit \div 6 + 1) \div Down(bit % 6)) % 256]]

\* index.js:35: the text handed to atob, named `padded` in the code: '-' and
\* '_' are mapped back to '+' and '/'; no '=' is added.
padded(str) ==
  [i \in 1..Len(str) |->
     IF str[i] = 45 THEN 43 ELSE IF str[i] = 95 THEN 47 ELSE str[i]]

\* index.js:34-38: '-' and '_' are mapped back to '+' and '/', and atob
\* decodes; no padding is added before the call.
base64UrlDecode(str) == atob(padded(str))

\* index.js:40-45: btoa, '+' and '/' mapped to '-' and '_', trailing '='
\* removed.
base64UrlEncode(buffer) ==
  LET b == btoa(buffer)
      mapped == [i \in 1..Len(b) |->
                   IF b[i] = 43 THEN 45 ELSE IF b[i] = 47 THEN 95 ELSE b[i]]
      last == Max({0} \cup {i \in 1..Len(mapped) : mapped[i] # 61})
  IN  SubSeq(mapped, 1, last)

\* 'https://fcm.googleapis.com/fcm/send/'
Text_fcm ==
  << 104, 116, 116, 112, 115, 58, 47, 47, 102, 99, 109, 46, 103, 111,
     111, 103, 108, 101, 97, 112, 105, 115, 46, 99, 111, 109, 47, 102,
     99, 109, 47, 115, 101, 110, 100, 47 >>

\* 'https://updates.push.services.mozilla.com/wpush/v2/'
Text_mozilla ==
  << 104, 116, 116, 112, 115, 58, 47, 47, 117, 112, 100, 97, 116, 101,
     115, 46, 112, 117, 115, 104, 46, 115, 101, 114, 118, 105, 99,
     101, 115, 46, 109, 111, 122, 105, 108, 108, 97, 46, 99, 111, 109,
     47, 119, 112, 117, 115, 104, 47, 118, 50, 47 >>

(***************************************************************************)
(* The text of an endpoint: an https URL of one of two push services,      *)
(* ending in the number of the subscription, so that several subscriptions *)
(* share an origin and others do not.                                      *)
(***************************************************************************)
Href(endpoint) ==
  (IF endpoint % 2 = 1 THEN Text_fcm ELSE Text_mozilla) \o Decimal(endpoint)

(***************************************************************************)
(* new URL(endpoint), for the absolute URLs above: the protocol runs up to *)
(* the first ':', the host from after '//' up to the next '/', the path    *)
(* from there on.                                                          *)
(***************************************************************************)
ParseURL(href) ==
  LET colon == Min({i \in 1..Len(href) : href[i] = 58})
      slash == Min({i \in (colon + 3)..Len(href) : href[i] = 47})
  IN  [protocol |-> SubSeq(href, 1, colon),
       host     |-> SubSeq(href, colon + 3, slash - 1),
       pathname |-> SubSeq(href, slash, Len(href))]

\* The endpoints of the subscriptions, parsed.
EndpointURLs == [endpoint \in Endpoints |-> ParseURL(Href(endpoint))]

URL(endpoint) == EndpointURLs[endpoint]

\* Faulty variant: the token is built once, for the first push service, and
\* used for every destination.
createVapidAuth_SharedToken(subscription) ==
  IF subscription.urlOk
  THEN [ok |-> TRUE, aud |-> URL(1).protocol \o << 47, 47 >> \o URL(1).host]
  ELSE [ok |-> FALSE, aud |-> << >>]

(***************************************************************************)
(* createVapidAuth (index.js:174-216): new URL(endpoint) throws for an     *)
(* endpoint that is no URL; the audience is `${url.protocol}//${url.host}` *)
(* of the endpoint it is called with.                                      *)
(***************************************************************************)
createVapidAuth(subscription) ==
  IF subscription.urlOk
  THEN LET url == URL(subscription.endpoint)
       IN  [ok |-> TRUE, aud |-> url.protocol \o << 47, 47 >> \o url.host]
  ELSE [ok |-> FALSE, aud |-> << >>]

(***************************************************************************)
(* Faulty variants of the classification, used to show that the checked    *)
(* properties depend on it.                                                *)
(***************************************************************************)
\* only 410 is taken as expired
sendPushNotificationResult_Only410(ans) ==
  IF ans = NetworkError THEN [success |-> FALSE, expired |-> FALSE]
  ELSE IF ans = 410 THEN [success |-> FALSE, expired |-> TRUE]
  ELSE [success |-> ans >= 200 /\ ans < 300, expired |-> FALSE]

\* every status from 400 on is taken as expired
sendPushNotificationResult_AnyErrorExpired(ans) ==
  IF ans = NetworkError THEN [success |-> FALSE, expired |-> FALSE]
  ELSE IF ans >= 400 THEN [success |-> FALSE, expired |-> TRUE]
  ELSE [success |-> ans >= 200 /\ ans < 300, expired |-> FALSE]

\* only 200 is taken as success
sendPushNotificationResult_Only200(ans) ==
  IF ans = NetworkError THEN [success |-> FALSE, expired |-> FALSE]
  ELSE IF ans = 410 \/ ans = 404 THEN [success |-> FALSE, expired |-> TRUE]
  ELSE [success |-> ans = 200, expired |-> FALSE]

(***************************************************************************)
(* Classification of the answer in sendPushNotification (index.js:248-256).*)
(***************************************************************************)
sendPushNotificationResult(ans) ==
  IF ans = NetworkError THEN [success |-> FALSE, expired |-> FALSE]
  ELSE IF ans = 410 \/ ans = 404 THEN [success |-> FALSE, expired |-> TRUE]
  ELSE [success |-> ans >= 200 /\ ans < 300, expired |-> FALSE]


(***************************************************************************)
(* State after the worker received the trigger request and before the      *)
(* handler ran.                                                            *)
(***************************************************************************)
Init ==
  /\ request \in Bodies
  /\ PUSH_SUBSCRIPTIONS \in Stores
  /\ tpc = "start"
  /\ payloadLen = 0
  /\ cursor = NoCursor
  /\ listResult = NoList
  /\ sent = 0 /\ failed = 0 /\ expired = 0
  /\ response = NoResponse
  /\ pc = [n \in KeyNames |-> "idle"]
  /\ subData = [n \in KeyNames |-> NoRecord]
  /\ posts = [n \in KeyNames |-> 0]
  /\ answer = [n \in KeyNames |-> << >>]
  /\ outcome = [n \in KeyNames |-> "None"]
  /\ cryptoOps = [n \in KeyNames |-> << >>]
  /\ wire = [n \in KeyNames |-> NoRequest]
  /\ deleteCalls = [n \in KeyNames |-> 0]
  /\ listed = {}
  /\ storeErrors = 0
  /\ clientLeft = MaxClientRequests
  /\ clientStatus = 0
  /\ encCalls = << >>
  /\ hkdfCall = NoCall
  /\ vapidCall = NoCall
  /\ codecCall = NoCall
  /\ clientCalls = [store |-> [n \in KeyNames |-> NoRecord], handled |-> << >>]

taskVars == << pc, subData, posts, answer, outcome, cryptoOps, wire, deleteCalls >>

(***************************************************************************)
(* index.js:343-367: the body is parsed (a body that is no JSON gives {}), *)
(* the notification payload is built and the counters are reset.  A body   *)
(* that parses to null makes payload.edition throw, which the outer catch  *)
(* answers with 500.                                                       *)
(***************************************************************************)
EditionLen(body) == IF body.editionLen > 0 THEN body.editionLen ELSE MorningLen

Trigger ==
  /\ tpc = "start"
  /\ IF request.kind = "null"
     THEN /\ tpc' = "returned"
          /\ response' = [status |-> 500]
          /\ UNCHANGED payloadLen
     ELSE /\ tpc' = "list"
          /\ payloadLen' = PayloadFixedLen + EditionLen(request)
          /\ UNCHANGED response
  /\ sent' = 0 /\ failed' = 0 /\ expired' = 0
  /\ cursor' = NoCursor
  /\ UNCHANGED << callVars, request, PUSH_SUBSCRIPTIONS, listResult, taskVars, listed, storeErrors, clientVars >>

(***************************************************************************)
(* PUSH_SUBSCRIPTIONS.list({prefix, cursor, limit}): the key names that    *)
(* hold a record, in ascending order, after the cursor, at most limit of   *)
(* them.                                                                   *)
(***************************************************************************)
KVList(store, cur, limit) ==
  LET after == { n \in KeyNames : n > cur /\ store[n] # NoRecord }
      keys  == { n \in after : Cardinality({ m \in after : m < n }) < limit }
      last  == IF keys = {} THEN cur ELSE CHOOSE n \in keys : \A m \in keys : m <= n
      complete == keys = after
  IN  [keys |-> keys, list_complete |-> complete,
       cursor |-> IF complete THEN NoCursor ELSE last]

(***************************************************************************)
(* index.js:370-376 and 391: one page is listed and one task per key is    *)
(* started; the handler then awaits Promise.all of the tasks.              *)
(***************************************************************************)
ListPage ==
  /\ tpc = "list"
  /\ LET r == KVList(PUSH_SUBSCRIPTIONS, cursor, PageLimit)
     IN  /\ listResult' = r
         /\ pc' = [n \in KeyNames |-> IF n \in r.keys THEN "get" ELSE pc[n]]
         /\ listed' = listed \cup r.keys
  /\ tpc' = "await"
  /\ UNCHANGED << callVars, request, PUSH_SUBSCRIPTIONS, payloadLen, cursor, sent, failed,
                  expired, response, subData, posts, answer, outcome, cryptoOps,
                  wire, deleteCalls, storeErrors, clientVars >>

(***************************************************************************)
(* Faulty variant: a key whose record is absent when read is counted as    *)
(* failed instead of being skipped.                                        *)
(***************************************************************************)
GetRecord_CountSkipped(name) ==
  /\ pc[name] = "get"
  /\ subData' = [subData EXCEPT ![name] = PUSH_SUBSCRIPTIONS[name]]
  /\ pc' = [pc EXCEPT ![name] =
              IF PUSH_SUBSCRIPTIONS[name] = NoRecord THEN "skipped" ELSE "send"]
  /\ failed' = IF PUSH_SUBSCRIPTIONS[name] = NoRecord THEN failed + 1 ELSE failed
  /\ UNCHANGED << callVars, request, PUSH_SUBSCRIPTIONS, tpc, payloadLen, cursor, listResult,
                  sent, expired, response, posts, answer, outcome,
                  cryptoOps, wire, deleteCalls, listed, storeErrors, clientVars >>

(***************************************************************************)
(* index.js:377-378: the task reads its record; an absent record ends the  *)
(* task.  A get that throws rejects the task.                              *)
(***************************************************************************)
GetRecord(name) ==
  /\ pc[name] = "get"
  /\ subData' = [subData EXCEPT ![name] = PUSH_SUBSCRIPTIONS[name]]
  /\ pc' = [pc EXCEPT ![name] =
              IF PUSH_SUBSCRIPTIONS[name] = NoRecord THEN "skipped" ELSE "send"]
  /\ UNCHANGED << callVars, request, PUSH_SUBSCRIPTIONS, tpc, payloadLen, cursor, listResult,
                  sent, failed, expired, response, posts, answer, outcome,
                  cryptoOps, wire, deleteCalls, listed, storeErrors, clientVars >>

GetThrows(name) ==
  /\ pc[name] = "get"
  /\ pc' = [pc EXCEPT ![name] = "rejected"]
  /\ storeErrors' = storeErrors + 1
  /\ UNCHANGED << callVars, request, PUSH_SUBSCRIPTIONS, tpc, payloadLen, cursor, listResult,
                  sent, failed, expired, response, subData, posts, answer, outcome,
                  cryptoOps, wire, deleteCalls, listed, clientVars >>

(***************************************************************************)
(* Faulty variant: sendPushNotification without its try/catch, so that a   *)
(* failing encryption or signature rejects the task.                       *)
(***************************************************************************)
SendPushNotification_NoCatch(name) ==
  /\ pc[name] = "send"
  /\ LET enc   == encryptPayload(subData[name], payloadLen)
         vapid == createVapidAuth(subData[name])
     IN  /\ cryptoOps' = [cryptoOps EXCEPT ![name] = enc.ops]
         /\ IF enc.ok /\ vapid.ok
            THEN /\ posts' = [posts EXCEPT ![name] = @ + 1]
                 /\ wire' = [wire EXCEPT ![name] =
                               [plainLen |-> enc.wire.plainLen,
                                bodyLen  |-> enc.wire.bodyLen,
                                to       |-> subData[name].endpoint,
                                aud      |-> vapid.aud]]
                 /\ pc' = [pc EXCEPT ![name] = "fetch"]
            ELSE /\ pc' = [pc EXCEPT ![name] = "rejected"]
                 /\ UNCHANGED << posts, wire >>
  /\ UNCHANGED << callVars, request, PUSH_SUBSCRIPTIONS, tpc, payloadLen, cursor, listResult,
                  sent, failed, expired, response, subData, answer, outcome,
                  deleteCalls, listed, storeErrors, clientVars >>

(***************************************************************************)
(* Faulty variant: the request goes out as soon as the body is encrypted,  *)
(* whether or not the authorization header could be built.                 *)
(***************************************************************************)
SendPushNotification_PostsUnsigned(name) ==
  /\ pc[name] = "send"
  /\ LET enc   == encryptPayload(subData[name], payloadLen)
         vapid == createVapidAuth(subData[name])
     IN  /\ cryptoOps' = [cryptoOps EXCEPT ![name] = enc.ops]
         /\ IF enc.ok
            THEN /\ posts' = [posts EXCEPT ![name] = @ + 1]
                 /\ wire' = [wire EXCEPT ![name] =
                               [plainLen |-> enc.wire.plainLen,
                                bodyLen  |-> enc.wire.bodyLen,
                                to       |-> subData[name].endpoint,
                                aud      |-> vapid.aud]]
                 /\ pc' = [pc EXCEPT ![name] = "fetch"]
                 /\ UNCHANGED << failed, outcome >>
            ELSE /\ failed' = failed + 1
                 /\ outcome' = [outcome EXCEPT ![name] = "Transient"]
                 /\ pc' = [pc EXCEPT ![name] = "done"]
                 /\ UNCHANGED << posts, wire >>
  /\ UNCHANGED << callVars, request, PUSH_SUBSCRIPTIONS, tpc, payloadLen, cursor, listResult,
                  sent, expired, response, subData, answer, deleteCalls, listed,
                  storeErrors, clientVars >>

(***************************************************************************)
(* Faulty variant: the request is built in one buffer of the module that   *)
(* all units of the broadcast write and send from.                         *)
(***************************************************************************)
SendPushNotification_SharedBuffer(name) ==
  /\ pc[name] = "send"
  /\ LET enc   == encryptPayload(subData[name], payloadLen)
         vapid == createVapidAuth(subData[name])
     IN  /\ cryptoOps' = [cryptoOps EXCEPT ![name] = enc.ops]
         /\ IF enc.ok /\ vapid.ok
            THEN /\ posts' = [posts EXCEPT ![name] = @ + 1]
                 /\ wire' = [n \in KeyNames |->
                               [plainLen |-> enc.wire.plainLen,
                                bodyLen  |-> enc.wire.bodyLen,
                                to       |-> subData[name].endpoint,
                                aud      |-> vapid.aud]]
                 /\ pc' = [pc EXCEPT ![name] = "fetch"]
                 /\ UNCHANGED << failed, outcome >>
            ELSE /\ failed' = failed + 1
                 /\ outcome' = [outcome EXCEPT ![name] = "Transient"]
                 /\ pc' = [pc EXCEPT ![name] = "done"]
                 /\ UNCHANGED << posts, wire >>
  /\ UNCHANGED << callVars, request, PUSH_SUBSCRIPTIONS, tpc, payloadLen, cursor, listResult,
                  sent, expired, response, subData, answer, deleteCalls, listed,
                  storeErrors, clientVars >>

(***************************************************************************)
(* index.js:380 with 222-246: sendPushNotification builds the wire record  *)
(* and the authorization header and calls fetch.  Whatever is thrown on    *)
(* the way is caught (index.js:254) and gives a result that is neither     *)
(* success nor expired, which the task counts as failed (index.js:387).    *)
(***************************************************************************)
SendPushNotification(name) ==
  /\ pc[name] = "send"
  /\ LET enc   == encryptPayload(subData[name], payloadLen)
         vapid == createVapidAuth(subData[name])
     IN  /\ cryptoOps' = [cryptoOps EXCEPT ![name] = enc.ops]
         /\ IF enc.ok /\ vapid.ok
            THEN /\ posts' = [posts EXCEPT ![name] = @ + 1]
                 /\ wire' = [wire EXCEPT ![name] =
                               [plainLen |-> enc.wire.plainLen,
                                bodyLen  |-> enc.wire.bodyLen,
                                to       |-> subData[name].endpoint,
                                aud      |-> vapid.aud]]
                 /\ pc' = [pc EXCEPT ![name] = "fetch"]
                 /\ UNCHANGED << failed, outcome >>
            ELSE /\ failed' = failed + 1
                 /\ outcome' = [outcome EXCEPT ![name] = "Transient"]
                 /\ pc' = [pc EXCEPT ![name] = "done"]
                 /\ UNCHANGED << posts, wire >>
  /\ UNCHANGED << callVars, request, PUSH_SUBSCRIPTIONS, tpc, payloadLen, cursor, listResult,
                  sent, expired, response, subData, answer, deleteCalls, listed,
                  storeErrors, clientVars >>

(***************************************************************************)
(* Faulty variant: a send that was neither delivered nor expired is tried  *)
(* again within the same broadcast.                                        *)
(***************************************************************************)
Respond_Retry(name, ans) ==
  /\ pc[name] = "fetch"
  /\ answer' = [answer EXCEPT ![name] = Append(@, ans)]
  /\ LET result == sendPushNotificationResult(ans)
     IN  IF result.success
         THEN /\ sent' = sent + 1
              /\ outcome' = [outcome EXCEPT ![name] = "Delivered"]
              /\ pc' = [pc EXCEPT ![name] = "done"]
              /\ UNCHANGED << failed, expired >>
         ELSE IF result.expired
         THEN /\ expired' = expired + 1
              /\ outcome' = [outcome EXCEPT ![name] = "Expired"]
              /\ pc' = [pc EXCEPT ![name] = "delete"]
              /\ UNCHANGED << sent, failed >>
         ELSE /\ pc' = [pc EXCEPT ![name] = IF posts[name] < 2 THEN "send" ELSE "done"]
              /\ failed' = IF posts[name] < 2 THEN failed ELSE failed + 1
              /\ outcome' = [outcome EXCEPT ![name] =
                               IF posts[name] < 2 THEN @ ELSE "Transient"]
              /\ UNCHANGED << sent, expired >>
  /\ UNCHANGED << callVars, request, PUSH_SUBSCRIPTIONS, tpc, payloadLen, cursor, listResult,
                  response, subData, posts, cryptoOps, wire, deleteCalls, listed,
                  storeErrors, clientVars >>

(***************************************************************************)
(* index.js:248-256 and 381-388: the push service answers (or the fetch    *)
(* rejects); the task counts the result and, for an expired subscription,  *)
(* goes on to delete the record.                                           *)
(***************************************************************************)
Respond(name, ans) ==
  /\ pc[name] = "fetch"
  /\ answer' = [answer EXCEPT ![name] = Append(@, ans)]
  /\ LET result == sendPushNotificationResult(ans)
     IN  IF result.success
         THEN /\ sent' = sent + 1
              /\ outcome' = [outcome EXCEPT ![name] = "Delivered"]
              /\ pc' = [pc EXCEPT ![name] = "done"]
              /\ UNCHANGED << failed, expired >>
         ELSE IF result.expired
         THEN /\ expired' = expired + 1
              /\ outcome' = [outcome EXCEPT ![name] = "Expired"]
              /\ pc' = [pc EXCEPT ![name] = "delete"]
              /\ UNCHANGED << sent, failed >>
         ELSE /\ failed' = failed + 1
              /\ outcome' = [outcome EXCEPT ![name] = "Transient"]
              /\ pc' = [pc EXCEPT ![name] = "done"]
              /\ UNCHANGED << sent, expired >>
  /\ UNCHANGED << callVars, request, PUSH_SUBSCRIPTIONS, tpc, payloadLen, cursor, listResult,
                  response, subData, posts, cryptoOps, wire, deleteCalls, listed,
                  storeErrors, clientVars >>

(***************************************************************************)
(* Faulty variant: an expired subscription is marked in place (a put of    *)
(* the changed record) instead of being deleted.                           *)
(***************************************************************************)
DeleteRecord_MarkInPlace(name) ==
  /\ pc[name] = "delete"
  /\ deleteCalls' = [deleteCalls EXCEPT ![name] = @ + 1]
  /\ PUSH_SUBSCRIPTIONS' =
       [PUSH_SUBSCRIPTIONS EXCEPT ![name] =
          IF @ = NoRecord THEN @ ELSE [@ EXCEPT !.urlOk = FALSE]]
  /\ pc' = [pc EXCEPT ![name] = "done"]
  /\ UNCHANGED << callVars, request, tpc, payloadLen, cursor, listResult, sent, failed,
                  expired, response, subData, posts, answer, outcome, cryptoOps,
                  wire, listed, storeErrors, clientVars >>

(***************************************************************************)
(* index.js:385: PUSH_SUBSCRIPTIONS.delete(name).  A delete that throws    *)
(* rejects the task.                                                       *)
(***************************************************************************)
DeleteRecord(name) ==
  /\ pc[name] = "delete"
  /\ deleteCalls' = [deleteCalls EXCEPT ![name] = @ + 1]
  /\ PUSH_SUBSCRIPTIONS' = [PUSH_SUBSCRIPTIONS EXCEPT ![name] = NoRecord]
  /\ pc' = [pc EXCEPT ![name] = "done"]
  /\ UNCHANGED << callVars, request, tpc, payloadLen, cursor, listResult, sent, failed,
                  expired, response, subData, posts, answer, outcome, cryptoOps,
                  wire, listed, storeErrors, clientVars >>

DeleteThrows(name) ==
  /\ pc[name] = "delete"
  /\ deleteCalls' = [deleteCalls EXCEPT ![name] = @ + 1]
  /\ pc' = [pc EXCEPT ![name] = "rejected"]
  /\ storeErrors' = storeErrors + 1
  /\ UNCHANGED << callVars, request, PUSH_SUBSCRIPTIONS, tpc, payloadLen, cursor, listResult,
                  sent, failed, expired, response, subData, posts, answer, outcome,
                  cryptoOps, wire, listed, clientVars >>

(***************************************************************************)
(* index.js:391-395: Promise.all fulfils when every task of the page has   *)
(* fulfilled; the loop goes on with the next page or the handler answers   *)
(* with the counters.                                                      *)
(***************************************************************************)
Settle ==
  /\ tpc = "await"
  /\ \A n \in listResult.keys : pc[n] \in {"done", "skipped"}
  /\ LET next == IF listResult.list_complete THEN NoCursor ELSE listResult.cursor
     IN  /\ cursor' = next
         /\ IF next # NoCursor
            THEN /\ tpc' = "list"
                 /\ UNCHANGED response
            ELSE /\ tpc' = "returned"
                 /\ response' = [status |-> 200, sent |-> sent, failed |-> failed,
                                 expired |-> expired]
  /\ UNCHANGED << callVars, request, PUSH_SUBSCRIPTIONS, payloadLen, listResult, sent, failed,
                  expired, taskVars, listed, storeErrors, clientVars >>

(***************************************************************************)
(* index.js:391 and 396-398: Promise.all rejects as soon as one task has   *)
(* rejected; the outer catch answers 500.  The other tasks of the page are *)
(* not awaited; they may still run.                                        *)
(***************************************************************************)
Reject ==
  /\ tpc = "await"
  /\ \E n \in listResult.keys : pc[n] = "rejected"
  /\ tpc' = "returned"
  /\ response' = [status |-> 500]
  /\ UNCHANGED << callVars, request, PUSH_SUBSCRIPTIONS, payloadLen, cursor, listResult, sent,
                  failed, expired, taskVars, listed, storeErrors, clientVars >>

(***************************************************************************)
(* Bodies of the subscribe and unsubscribe requests.  endpoint 0 stands    *)
(* for a missing endpoint, keys << >> for a missing keys member.           *)
(***************************************************************************)
NoEndpoint == 0
\* Keys a client subscribes with: well-formed ones, and a p256dh that is too
\* short.
ClientKinds == { k \in SubKinds : k.hasKeys /\ k.authLen = 16 /\ k.urlOk }
SubscribeBodies ==
  { [endpoint |-> e, keys |-> << k >>] : e \in Endpoints, k \in ClientKinds }
    \cup { [endpoint |-> NoEndpoint, keys |-> << k >>] : k \in ClientKinds }
    \cup { [endpoint |-> e, keys |-> << >>] : e \in Endpoints }
UnsubscribeBodies == { [endpoint |-> e] : e \in Endpoints \cup {NoEndpoint} }

(***************************************************************************)
(* index.js:300-317: POST /api/push/subscribe.  A body without endpoint or *)
(* keys is answered 400; otherwise the record is put under the key of the  *)
(* endpoint, replacing what was there.                                     *)
(***************************************************************************)
Subscribe(body) ==
  /\ clientLeft > 0
  /\ clientLeft' = clientLeft - 1
  /\ IF body.endpoint = NoEndpoint \/ body.keys = << >>
     THEN /\ clientStatus' = 400
          /\ UNCHANGED PUSH_SUBSCRIPTIONS
     ELSE /\ clientStatus' = 200
          /\ PUSH_SUBSCRIPTIONS' =
               [PUSH_SUBSCRIPTIONS EXCEPT ![hashEndpoint(body.endpoint)] =
                  Record(body.endpoint, body.keys[1])]
  /\ UNCHANGED << callVars, request, tpc, payloadLen, cursor, listResult, sent, failed,
                  expired, response, taskVars, listed, storeErrors >>

(***************************************************************************)
(* index.js:324-336: DELETE /api/push/subscribe.  A body without endpoint  *)
(* is answered 400; otherwise the key of the endpoint is deleted.          *)
(***************************************************************************)
Unsubscribe(body) ==
  /\ clientLeft > 0
  /\ clientLeft' = clientLeft - 1
  /\ IF body.endpoint = NoEndpoint
     THEN /\ clientStatus' = 400
          /\ UNCHANGED PUSH_SUBSCRIPTIONS
     ELSE /\ clientStatus' = 200
          /\ PUSH_SUBSCRIPTIONS' =
               [PUSH_SUBSCRIPTIONS EXCEPT ![hashEndpoint(body.endpoint)] = NoRecord]
  /\ UNCHANGED << callVars, request, tpc, payloadLen, cursor, listResult, sent, failed,
                  expired, response, taskVars, listed, storeErrors >>

Next ==
  \/ Trigger
  \/ ListPage
  \/ \E n \in KeyNames : GetRecord(n)
  \/ \E n \in KeyNames : GetThrows(n)
  \/ \E n \in KeyNames : SendPushNotification(n)
  \/ \E n \in KeyNames, a \in Answers : Respond(n, a)
  \/ \E n \in KeyNames : DeleteRecord(n)
  \/ \E n \in KeyNames : DeleteThrows(n)
  \/ Settle
  \/ Reject

Spec == Init /\ [][Next]_vars

(***************************************************************************)
(* The broadcast with subscribe and unsubscribe requests handled by the    *)
(* worker while it runs.                                                   *)
(***************************************************************************)
ClientNext ==
  \/ \E b \in SubscribeBodies : Subscribe(b)
  \/ \E b \in UnsubscribeBodies : Unsubscribe(b)

NextConc == Next \/ ClientNext

\* The broadcast starts from a trigger without edition and a store of well-formed
\* subscriptions; malformed ones arrive through the subscribe requests.
ValidKind == [hasKeys |-> TRUE, p256dhLen |-> 65, isPoint |-> TRUE, authLen |-> 16,
              urlOk |-> TRUE]

InitConc ==
  /\ Init
  /\ request = [kind |-> "invalid", editionLen |-> 0]
  /\ \A n \in KeyNames :
       PUSH_SUBSCRIPTIONS[n] \in {NoRecord, Record(EndpointOf(n), ValidKind)}

SpecConc == InitConc /\ [][NextConc]_vars

(***************************************************************************)
(* The broadcast under the scheduling the runtime guarantees: every step   *)
(* of the worker that can be taken is taken, and the store answers every   *)
(* call (with a value or an error).  A push service is not obliged to      *)
(* answer, and nothing in sendPushNotification bounds the wait for it:     *)
(* fetch is called without a signal (index.js:235-246).                    *)
(***************************************************************************)
WorkerStep ==
  \/ Trigger
  \/ ListPage
  \/ \E n \in KeyNames : GetRecord(n) \/ GetThrows(n)
  \/ \E n \in KeyNames : SendPushNotification(n)
  \/ \E n \in KeyNames : DeleteRecord(n) \/ DeleteThrows(n)
  \/ Settle
  \/ Reject

SpecLive == InitConc /\ [][Next]_vars /\ WF_vars(WorkerStep)

(***************************************************************************)
(* The byte-level runs.  encryptPayload, hkdf and createVapidAuth are run  *)
(* on their own, outside a broadcast, on buffers of bytes; the broadcast   *)
(* stands at its initial state with an empty store.                        *)
(***************************************************************************)
broadcastVars ==
  << request, PUSH_SUBSCRIPTIONS, tpc, payloadLen, cursor, listResult,
     sent, failed, expired, response, pc, subData, posts, answer,
     outcome, cryptoOps, wire, deleteCalls, listed, storeErrors,
     clientLeft, clientStatus >>

InitCalls ==
  /\ Init
  /\ request = [kind |-> "invalid", editionLen |-> 0]
  /\ PUSH_SUBSCRIPTIONS = [n \in KeyNames |-> NoRecord]

(***************************************************************************)
(* The Web Crypto primitives are platform code.  They are modelled by      *)
(* small executable functions that keep the shape of the real ones: a MAC  *)
(* of 32 bytes that depends on every byte of key and message and on their  *)
(* order, in which a key is padded with zeros to the block size (so that   *)
(* the empty key and a key of zeros agree, as in HMAC).                    *)
(***************************************************************************)
FoldModulus == 65521

RECURSIVE Fold(_, _, _, _)
Fold(s, lo, hi, one) ==
  IF lo > hi THEN 0
  ELSE IF lo = hi THEN ((s[lo] + one) * (lo + 7)) % FoldModulus
  ELSE LET mid == (lo + hi) \div 2
       IN  (Fold(s, lo, mid, one) + Fold(s, mid + 1, hi, one)) % FoldModulus

\* crypto.subtle.sign('HMAC', key, message): 32 bytes.
HMAC(key, message) ==
  LET k == Fold(key, 1, Len(key), 0)
      m == Fold(message, 1, Len(message), 1)
      h == (k * 251 + m * 31 + 17) % FoldModulus
  IN  [i \in 1..32 |-> (((h + 1) * (2 * i + 1)) \div 7 + i * i) % 256]

\* 'WebPush: info\0'
Text_WebPushInfo ==
  << 87, 101, 98, 80, 117, 115, 104, 58, 32, 105, 110, 102, 111, 0 >>

\* 'Content-Encoding: aes128gcm\0'
Text_cekInfo ==
  << 67, 111, 110, 116, 101, 110, 116, 45, 69, 110, 99, 111, 100, 105,
     110, 103, 58, 32, 97, 101, 115, 49, 50, 56, 103, 99, 109, 0 >>

\* 'Content-Encoding: nonce\0'
Text_nonceInfo_SameAsKey ==
  << 67, 111, 110, 116, 101, 110, 116, 45, 69, 110, 99, 111, 100, 105,
     110, 103, 58, 32, 97, 101, 115, 49, 50, 56, 103, 99, 109, 0 >>

Text_nonceInfo ==
  << 67, 111, 110, 116, 101, 110, 116, 45, 69, 110, 99, 111, 100, 105,
     110, 103, 58, 32, 110, 111, 110, 99, 101, 0 >>

(***************************************************************************)
(* hkdf (index.js:48-60).  Line 49 imports ikm as an HMAC key that is      *)
(* never used; importKey('raw', ...) refuses a key of length zero with a   *)
(* DataError, so hkdf throws for an empty ikm.  The salt, or 32 zero bytes *)
(* for an empty salt, keys the first MAC over ikm; its result keys the     *)
(* second MAC over info || 0x01, of which slice(0, length) is returned.    *)
(***************************************************************************)
\* Faulty variant: the whole block is returned, whatever length was asked.
hkdf_WholeBlock(salt, ikm, info, length) ==
  IF Len(ikm) = 0
  THEN [ok |-> FALSE, bytes |-> << >>]
  ELSE LET prk     == HMAC(IF Len(salt) # 0 THEN salt ELSE Zeros(32), ikm)
           infoArr == info \o << 1 >>
           okm     == HMAC(prk, infoArr)
       IN  [ok |-> TRUE, bytes |-> okm]

hkdf(salt, ikm, info, length) ==
  IF Len(ikm) = 0
  THEN [ok |-> FALSE, bytes |-> << >>]
  ELSE LET prk     == HMAC(IF Len(salt) # 0 THEN salt ELSE Zeros(32), ikm)
           infoArr == info \o << 1 >>
           okm     == HMAC(prk, infoArr)
       IN  [ok |-> TRUE,
            bytes |-> SubSeq(okm, 1, IF length < Len(okm) THEN length ELSE Len(okm))]

\* Inputs of hkdf: salts and key materials of several lengths, the empty
\* ones included, the info strings of the call sites, and the lengths asked
\* for by the call sites (32, 16, 12) and the extremes 0 and 1.
Pattern(n, a, b) == [i \in 1..n |-> (a * i + b) % 256]

HkdfSalts   == { << >>, Zeros(32), Pattern(16, 7, 3), Pattern(8, 11, 5) }
HkdfIkms    == { << >>, << 0 >>, Pattern(32, 13, 1), Pattern(32, 3, 200) }
HkdfInfos   == { << >>, Text_cekInfo, Text_nonceInfo }
HkdfLengths == { 0, 1, 12, 16, 32 }

HkdfCall ==
  \E salt \in HkdfSalts, ikm \in HkdfIkms, info \in HkdfInfos,
     length \in HkdfLengths :
    /\ hkdfCall' = [called |-> TRUE, salt |-> salt, ikm |-> ikm, info |-> info,
                    length |-> length, result |-> hkdf(salt, ikm, info, length)]
    /\ UNCHANGED << broadcastVars, encCalls, vapidCall, codecCall, clientCalls >>

SpecHkdf == InitCalls /\ [][HkdfCall]_vars

(***************************************************************************)
(* ECDH on P-256 is modelled by Diffie-Hellman in the multiplicative group *)
(* of the integers modulo GroupPrime, with generator GroupGenerator: a     *)
(* private key is a scalar, the public key of scalar d is Generator^d, and *)
(* both sides of an agreement get the same secret.  A public key in raw    *)
(* form is the 65 bytes 0x04 || X (32) || Y (32); Y is fixed by X, and     *)
(* importKey refuses bytes that are not such a point.                      *)
(***************************************************************************)
GroupPrime     == 251
GroupGenerator == 6

RECURSIVE ModExp(_, _)
ModExp(b, e) ==
  IF e = 0 THEN 1
  ELSE LET h  == ModExp(b, e \div 2)
           sq == (h * h) % GroupPrime
       IN  IF e % 2 = 1 THEN (sq * b) % GroupPrime ELSE sq

CurveY(x) == (x * x * x + 7) % GroupPrime

\* crypto.subtle.exportKey('raw', publicKey) of the pair with private scalar d
exportKey(d) ==
  LET x == ModExp(GroupGenerator, d)
  IN  << 4 >> \o Zeros(31) \o << x >> \o Zeros(31) \o << CurveY(x) >>

\* crypto.subtle.importKey('raw', keyData, ECDH P-256): throws unless the
\* data are the 65 bytes of a point of the curve.
importKey(keyData) ==
  IF /\ Len(keyData) = PointLen
     /\ keyData[1] = 4
     /\ SubSeq(keyData, 2, 32) = Zeros(31)
     /\ SubSeq(keyData, 34, 64) = Zeros(31)
     /\ keyData[33] \in 1..(GroupPrime - 1)
     /\ keyData[65] = CurveY(keyData[33])
  THEN [ok |-> TRUE, x |-> keyData[33]]
  ELSE [ok |-> FALSE, x |-> 0]

\* crypto.subtle.deriveBits({ECDH, public}, privateKey, 256): 32 bytes
deriveBits(publicX, d) == Zeros(31) \o << ModExp(publicX, d) >>

(***************************************************************************)
(* AES-128-GCM is modelled by a stream cipher keyed by key and iv with a   *)
(* 16-byte tag over the ciphertext: encrypt returns ciphertext || tag, and *)
(* decrypt refuses data whose tag does not match.                          *)
(***************************************************************************)
GcmSeed(key, iv) ==
  (Fold(key, 1, Len(key), 1) * 3 + Fold(iv, 1, Len(iv), 1) * 5) % FoldModulus

GcmStream(seed, i) == (seed * ((i % GroupPrime) + 1) + i) % 256

GcmTag(seed, ciphertext) ==
  LET f == Fold(ciphertext, 1, Len(ciphertext), 1)
  IN  [i \in 1..TagLen |-> (f * (i + 1) + seed + i) % 256]

\* crypto.subtle.encrypt({AES-GCM, iv}, key, data)
AesGcmEncrypt(key, iv, data) ==
  LET seed == GcmSeed(key, iv)
      ciphertext == [i \in 1..Len(data) |-> (data[i] + GcmStream(seed, i)) % 256]
  IN  ciphertext \o GcmTag(seed, ciphertext)

\* index.js:151-152: DataView.setUint32(0, value) writes big-endian
setUint32_LittleEndian(value) ==
  << value % 256, (value \div 256) % 256,
     (value \div 65536) % 256, (value \div 16777216) % 256 >>

setUint32(value) ==
  << (value \div 16777216) % 256, (value \div 65536) % 256,
     (value \div 256) % 256, value % 256 >>

\* index.js:141: the payload followed by the delimiter byte 2
paddedPayload_NoDelimiter(payloadBytes) == concatBuffers(<< payloadBytes, << >> >>)

\* Faulty variant: a padding byte after the delimiter.
paddedPayload_ZeroPadded(payloadBytes) ==
  concatBuffers(<< payloadBytes, << 2 >>, << 0 >> >>)

paddedPayload(payloadBytes) == concatBuffers(<< payloadBytes, << 2 >> >>)

Thrown ==
  [ok |-> FALSE, body |-> << >>, serverPublicKey |-> << >>, salt |-> << >>,
   locals |-> << >>]

\* Faulty variant: the sender's key before the subscription's.
authInfo_SenderKeyFirst(clientPublicKey, serverPublicKeyRaw) ==
  concatBuffers(<< Text_WebPushInfo, serverPublicKeyRaw, clientPublicKey >>)

\* index.js:119-123
authInfo(clientPublicKey, serverPublicKeyRaw) ==
  concatBuffers(<< Text_WebPushInfo, clientPublicKey, serverPublicKeyRaw >>)

\* A call of hkdf with what it was given and what it returned.
HkdfTrace(salt, ikm, info, length) ==
  [salt |-> salt, ikm |-> ikm, info |-> info, length |-> length,
   okm |-> hkdf(salt, ikm, info, length)]

(***************************************************************************)
(* encryptPayload (index.js:93-168) on bytes.  serverScalar is the private *)
(* key that generateKey returned to this call and randomSalt the 16 bytes  *)
(* that getRandomValues returned to it.  The third parameter of the code   *)
(* (vapidKeys) is not used by it.                                          *)
(***************************************************************************)
encryptPayloadBytes(subscription, payload, serverScalar, randomSalt) ==
  LET p256dh == base64UrlDecode(subscription.keys.p256dh)
      auth   == base64UrlDecode(subscription.keys.auth)
  IN
  IF ~p256dh.ok \/ ~auth.ok THEN Thrown
  ELSE
  LET clientPublicKey    == p256dh.bytes
      clientAuth         == auth.bytes
      serverPublicKeyRaw == exportKey(serverScalar)
      clientKey          == importKey(clientPublicKey)
  IN
  IF ~clientKey.ok THEN Thrown
  ELSE
  LET sharedSecret == deriveBits(clientKey.x, serverScalar)
      ikmCall      == HkdfTrace(clientAuth, sharedSecret,
                                authInfo(clientPublicKey, serverPublicKeyRaw), 32)
      ikm          == ikmCall.okm
      salt         == randomSalt
      cekCall      == HkdfTrace(salt, ikm.bytes, Text_cekInfo, 16)
      cek          == cekCall.okm
      nonceCall    == HkdfTrace(salt, ikm.bytes, Text_nonceInfo, 12)
      nonce        == nonceCall.okm
      encryptCall  == [key |-> cek.bytes, iv |-> nonce.bytes,
                       data |-> paddedPayload(payload)]
      encrypted    == AesGcmEncrypt(encryptCall.key, encryptCall.iv,
                                    encryptCall.data)
      rs           == setUint32(RecordSize)
      idlen        == << 65 >>
      body         == concatBuffers(<< salt, rs, idlen, serverPublicKeyRaw,
                                       encrypted >>)
  IN
  IF ~ikm.ok \/ ~cek.ok \/ ~nonce.ok THEN Thrown
  ELSE [ok |-> TRUE, body |-> body,
        serverPublicKey |-> base64UrlEncode(serverPublicKeyRaw),
        salt |-> base64UrlEncode(salt),
        \* not returned by the code: the calls made on the way, kept for
        \* the properties that speak about them
        locals |-> [sharedSecret |-> sharedSecret,
                    hkdf    |-> << ikmCall, cekCall, nonceCall >>,
                    encrypt |-> encryptCall,
                    encrypted |-> Len(encrypted)]]

(***************************************************************************)
(* Receivers and their subscriptions.  A receiver holds a private scalar   *)
(* and a 16-byte auth secret; its subscription carries the public key and  *)
(* the auth secret in base64url, as the browser sends them (index.js:      *)
(* 302-313).  NoReceiver stands for a stored record whose p256dh is not a  *)
(* point.                                                                  *)
(***************************************************************************)
NoReceiver == 0
Receivers  == {3, 10}

AuthSecret(receiver) == Pattern(16, receiver, 9)

PushSubscription(receiver) ==
  [endpoint |-> Href(receiver),
   keys |-> [p256dh |-> base64UrlEncode(IF receiver = NoReceiver
                                         THEN Pattern(10, 1, 1)
                                         ELSE exportKey(receiver)),
             auth   |-> base64UrlEncode(AuthSecret(receiver))]]

\* Plaintexts of the lengths 0, 1, 34 and 4000; they end in the bytes 2, 0
\* (the values of the delimiter and of padding) where they are long enough.
PlainLens == {0, 1, 34, 4000}

Plain(n) ==
  [i \in 1..n |-> IF i = n THEN 0 ELSE IF i = n - 1 THEN 2 ELSE (i * 37 + n) % 128]

Payloads == { Plain(n) : n \in PlainLens }

(***************************************************************************)
(* generateKey and getRandomValues draw from a cryptographic generator.    *)
(* Each of the two is modelled as a stream of pairwise distinct values, of *)
(* which every draw takes the next: a value that was returned once is not  *)
(* returned again (a repetition has a probability of the order of 2^-128   *)
(* and is not modelled).  MaxCalls bounds the calls of a run.              *)
(***************************************************************************)
MaxCalls == 2

generateKey(k)     == 7 * k + 2
getRandomValues(k) == Pattern(16, 2 * k + 1, k)

\* The draws made so far: generateKey by every call, getRandomValues by the
\* calls that got as far as line 127.
KeysGenerated == Len(encCalls)
SaltsDrawn    == Cardinality({i \in 1..Len(encCalls) : encCalls[i].result.ok})

\* Faulty variant: one key pair, generated when the worker starts, serves
\* every call.
EncryptCall_ReusedKeyPair ==
  /\ Len(encCalls) < MaxCalls
  /\ \E receiver \in Receivers \cup {NoReceiver}, payload \in Payloads :
       LET d      == generateKey(1)
           s      == getRandomValues(SaltsDrawn + 1)
           result == encryptPayloadBytes(PushSubscription(receiver), payload, d, s)
       IN  encCalls' = Append(encCalls,
                              [receiver |-> receiver, payload |-> payload,
                               serverScalar |-> d,
                               salt |-> IF result.ok THEN s ELSE << >>,
                               result |-> result])
  /\ UNCHANGED << broadcastVars, hkdfCall, vapidCall, codecCall, clientCalls >>

(***************************************************************************)
(* One call of encryptPayload (index.js:93-168): the key pair is generated *)
(* first (98-102); the salt is drawn (127) only when importKey accepted    *)
(* the subscription's key.                                                 *)
(***************************************************************************)
EncryptCall ==
  /\ Len(encCalls) < MaxCalls
  /\ \E receiver \in Receivers \cup {NoReceiver}, payload \in Payloads :
       LET d      == generateKey(KeysGenerated + 1)
           s      == getRandomValues(SaltsDrawn + 1)
           result == encryptPayloadBytes(PushSubscription(receiver), payload, d, s)
       IN  encCalls' = Append(encCalls,
                              [receiver |-> receiver, payload |-> payload,
                               serverScalar |-> d,
                               salt |-> IF result.ok THEN s ELSE << >>,
                               result |-> result])
  /\ UNCHANGED << broadcastVars, hkdfCall, vapidCall, codecCall, clientCalls >>

SpecEncrypt == InitCalls /\ [][EncryptCall]_vars

(***************************************************************************)
(* ECDSA with SHA-256 is modelled by a signature of the Schnorr kind in    *)
(* the group of the key agreement: with the private scalar d and a random  *)
(* nonce k, the signature of a message with digest e is r = Generator^k    *)
(* and s = k + e * d, each written as 32 bytes (the raw r || s form).      *)
(***************************************************************************)
GroupOrder == 250

Digest(message) == Fold(message, 1, Len(message), 1) % GroupOrder

\* crypto.subtle.sign({ECDSA, SHA-256}, key, data): 64 bytes
EcdsaSign(d, data, k) ==
  LET r == ModExp(GroupGenerator, k)
      s == (k + Digest(data) * d) % GroupOrder
  IN  Zeros(31) \o << r >> \o Zeros(31) \o << s >>

\* crypto.subtle.importKey('jwk', {kty, crv, d, x, y}, ECDSA P-256): throws
\* unless d, x and y are 32 bytes each in base64url and (x, y) is the point
\* of d.
importJwk(jwk) ==
  LET d == base64UrlDecode(jwk.d)
      x == base64UrlDecode(jwk.x)
      y == base64UrlDecode(jwk.y)
  IN  IF /\ d.ok /\ x.ok /\ y.ok
         /\ Len(d.bytes) = 32 /\ Len(x.bytes) = 32 /\ Len(y.bytes) = 32
         /\ SubSeq(d.bytes, 1, 31) = Zeros(31)
         /\ d.bytes[32] \in 1..(GroupOrder - 1)
         /\ << 4 >> \o x.bytes \o y.bytes = exportKey(d.bytes[32])
      THEN [ok |-> TRUE, d |-> d.bytes[32]]
      ELSE [ok |-> FALSE, d |-> 0]

\* The sender's key pair of the configuration (env.VAPID_PUBLIC_KEY,
\* env.VAPID_PRIVATE_KEY, index.js:225-233), in base64url.
VapidScalar == 17

VAPID_PUBLIC_KEY  == base64UrlEncode(exportKey(VapidScalar))
VAPID_PRIVATE_KEY == base64UrlEncode(Zeros(31) \o << VapidScalar >>)

\* '{"typ":"JWT","alg":"ES256"}'
Text_jwtHeader ==
  << 123, 34, 116, 121, 112, 34, 58, 34, 74, 87, 84, 34, 44, 34, 97,
     108, 103, 34, 58, 34, 69, 83, 50, 53, 54, 34, 125 >>

\* '{"aud":"'
Text_audKey ==
  << 123, 34, 97, 117, 100, 34, 58, 34 >>

\* '","exp":'
Text_expKey ==
  << 34, 44, 34, 101, 120, 112, 34, 58 >>

\* ',"sub":"mailto:info@generated-news.com"}'
Text_subTail ==
  << 44, 34, 115, 117, 98, 34, 58, 34, 109, 97, 105, 108, 116, 111,
     58, 105, 110, 102, 111, 64, 103, 101, 110, 101, 114, 97, 116,
     101, 100, 45, 110, 101, 119, 115, 46, 99, 111, 109, 34, 125 >>

\* 'vapid t='
Text_vapid ==
  << 118, 97, 112, 105, 100, 32, 116, 61 >>

\* ', k='
Text_k ==
  << 44, 32, 107, 61 >>

\* Faulty variant: the token lives for 24 hours.
Expiration_OneDay(now) == (now \div 1000) + 24 * 60 * 60

\* index.js:177: Math.floor(Date.now() / 1000) + 12 * 60 * 60
Expiration(now) == (now \div 1000) + 12 * 60 * 60

NoAuth == [ok |-> FALSE, authorization |-> << >>]

\* Faulty variant: the signature covers the claims segment only.
createVapidAuthText_SignsClaimsOnly(endpoint, vapidPublicKey, vapidPrivateKey, now, k) ==
  LET url        == URL(endpoint)
      audience   == url.protocol \o << 47, 47 >> \o url.host
      expiration == Expiration(now)
      headerB64  == base64UrlEncode(Text_jwtHeader)
      payloadB64 == base64UrlEncode(Text_audKey \o audience \o Text_expKey
                                      \o Decimal(expiration) \o Text_subTail)
      unsignedToken   == headerB64 \o << 46 >> \o payloadB64
      privateKeyBytes == base64UrlDecode(vapidPrivateKey)
      publicKeyBytes  == base64UrlDecode(vapidPublicKey)
  IN
  IF ~privateKeyBytes.ok \/ ~publicKeyBytes.ok \/ Len(publicKeyBytes.bytes) < PointLen
  THEN NoAuth
  ELSE
  LET jwk == [d |-> base64UrlEncode(privateKeyBytes.bytes),
              x |-> base64UrlEncode(SubSeq(publicKeyBytes.bytes, 2, 33)),
              y |-> base64UrlEncode(SubSeq(publicKeyBytes.bytes, 34, 65))]
      key == importJwk(jwk)
      signature == EcdsaSign(key.d, payloadB64, k)
      jwt == unsignedToken \o << 46 >> \o base64UrlEncode(signature)
  IN
  IF ~key.ok THEN NoAuth
  ELSE [ok |-> TRUE,
        authorization |-> Text_vapid \o jwt \o Text_k \o vapidPublicKey]

(***************************************************************************)
(* createVapidAuth (index.js:174-216) on text.  now is what Date.now()     *)
(* returned to the call, in milliseconds, and k the nonce that the signing *)
(* drew.  The header and the claims are the JSON texts that JSON.stringify *)
(* gives for the two objects (keys in the order written).                  *)
(***************************************************************************)
createVapidAuthText(endpoint, vapidPublicKey, vapidPrivateKey, now, k) ==
  LET url        == URL(endpoint)
      audience   == url.protocol \o << 47, 47 >> \o url.host
      expiration == Expiration(now)
      headerB64  == base64UrlEncode(Text_jwtHeader)
      payloadB64 == base64UrlEncode(Text_audKey \o audience \o Text_expKey
                                      \o Decimal(expiration) \o Text_subTail)
      unsignedToken   == headerB64 \o << 46 >> \o payloadB64
      privateKeyBytes == base64UrlDecode(vapidPrivateKey)
      publicKeyBytes  == base64UrlDecode(vapidPublicKey)
  IN
  IF ~privateKeyBytes.ok \/ ~publicKeyBytes.ok \/ Len(publicKeyBytes.bytes) < PointLen
  THEN NoAuth
  ELSE
  LET jwk == [d |-> base64UrlEncode(privateKeyBytes.bytes),
              x |-> base64UrlEncode(SubSeq(publicKeyBytes.bytes, 2, 33)),
              y |-> base64UrlEncode(SubSeq(publicKeyBytes.bytes, 34, 65))]
      key == importJwk(jwk)
      signature == EcdsaSign(key.d, unsignedToken, k)
      jwt == unsignedToken \o << 46 >> \o base64UrlEncode(signature)
  IN
  IF ~key.ok THEN NoAuth
  ELSE [ok |-> TRUE,
        authorization |-> Text_vapid \o jwt \o Text_k \o vapidPublicKey]

(***************************************************************************)
(* The times at which a token is built: Date.now() in milliseconds, as     *)
(* offsets that fit a signed 32-bit integer; they fall on                  *)
(* different fractions of a second and are more than a day apart.          *)
(***************************************************************************)
MaxTicks == 20
TimeStep == 99999989

Times == { t * TimeStep : t \in 0..MaxTicks }

SignNonces == {5, 12}

VapidCall ==
  \E endpoint \in Endpoints, now \in Times, k \in SignNonces :
    /\ vapidCall' = [called |-> TRUE, endpoint |-> endpoint, now |-> now,
                     result |-> createVapidAuthText(endpoint, VAPID_PUBLIC_KEY,
                                                    VAPID_PRIVATE_KEY, now, k)]
    /\ UNCHANGED << broadcastVars, encCalls, hkdfCall, codecCall, clientCalls >>

SpecVapid == InitCalls /\ [][VapidCall]_vars

(***************************************************************************)
(* The codec on its own: a buffer is encoded (index.js:40-45) and the text *)
(* is decoded again (index.js:34-38).  The buffers are all sequences of up *)
(* to MaxBufferLen bytes over a few byte values, chosen so that every      *)
(* character class of the alphabet ('+' and '/' included) and every        *)
(* padding class occurs.                                                   *)
(***************************************************************************)
MaxBufferLen == 3

CodecBytes == {0, 62, 128, 251, 255}

CodecBuffers ==
  UNION { [1..n -> CodecBytes] : n \in 0..MaxBufferLen }

CodecCall ==
  \E buffer \in CodecBuffers :
    LET text == base64UrlEncode(buffer)
    IN  /\ codecCall' = [called |-> TRUE, buffer |-> buffer, text |-> text,
                         atobInput |-> padded(text),
                         result |-> base64UrlDecode(text)]
        /\ UNCHANGED << broadcastVars, encCalls, hkdfCall, vapidCall, clientCalls >>

SpecCodec == InitCalls /\ [][CodecCall]_vars

(***************************************************************************)
(* The subscribe and unsubscribe handlers on their own (index.js:299-340), *)
(* with the whole body of the request: requests are handled one after the  *)
(* other, starting from an empty store.                                    *)
(*   kind          "notJSON": request.json() throws; "null": the body      *)
(*                  parses to null and the destructuring throws;           *)
(*                  "object": a JSON object                                *)
(*   subscription  << >> when the member is missing, else << s >>          *)
(*   endpoint      NoEndpoint when missing or empty                        *)
(*   keys          << >> when missing, else << the keys object >>          *)
(*   email         "" when missing or empty                                *)
(* storeOk tells whether the put or delete of the store succeeds.          *)
(***************************************************************************)
MaxRequests == 3

ClientEndpoints == {1, 2}
ClientKeys ==
  { [p256dh |-> "BPa", auth |-> "x1"], [p256dh |-> "BPb", auth |-> "x2"] }
ClientEmails == {"", "reader@example.com"}

SubscriptionObjects ==
  { [endpoint |-> e, keys |-> k] :
      e \in ClientEndpoints \cup {NoEndpoint},
      k \in {<< >>} \cup { << c >> : c \in ClientKeys } }

SubscribeRequests ==
  { [kind |-> "object", subscription |-> << s >>, email |-> m] :
      s \in SubscriptionObjects, m \in ClientEmails }
    \cup { [kind |-> "object", subscription |-> << >>, email |-> m] :
             m \in ClientEmails }
    \cup { [kind |-> k, subscription |-> << >>, email |-> ""] :
             k \in {"notJSON", "null"} }

UnsubscribeRequests ==
  { [kind |-> "object", endpoint |-> e] : e \in ClientEndpoints \cup {NoEndpoint} }
    \cup { [kind |-> k, endpoint |-> NoEndpoint] : k \in {"notJSON", "null"} }

\* What a handler did: the status it answered, the store it left, and the
\* call it made on the store.
Handled(status, store, op) == [status |-> status, store |-> store, op |-> op]

\* Faulty variant: an endpoint that has a record keeps it.
HandleSubscribe_KeepsFirst(store, body, storeOk, now) ==
  IF body.kind # "object" THEN Handled(500, store, "none")
  ELSE IF body.subscription = << >> THEN Handled(400, store, "none")
  ELSE
  LET subscription == body.subscription[1]
  IN
  IF subscription.endpoint = NoEndpoint \/ subscription.keys = << >>
  THEN Handled(400, store, "none")
  ELSE
  LET key == hashEndpoint(subscription.endpoint)
  IN
  IF ~storeOk THEN Handled(500, store, "put")
  ELSE IF store[key] # NoRecord THEN Handled(200, store, "none")
  ELSE Handled(200,
               [store EXCEPT ![key] =
                  [endpoint |-> subscription.endpoint,
                   keys |-> subscription.keys[1],
                   email |-> IF body.email # "" THEN body.email ELSE "anonymous",
                   subscribedAt |-> now]],
               "put")

\* Faulty variant: the keys member is not looked at.
HandleSubscribe_KeysNotChecked(store, body, storeOk, now) ==
  IF body.kind # "object" THEN Handled(500, store, "none")
  ELSE IF body.subscription = << >> THEN Handled(400, store, "none")
  ELSE
  LET subscription == body.subscription[1]
  IN
  IF subscription.endpoint = NoEndpoint
  THEN Handled(400, store, "none")
  ELSE
  LET key == hashEndpoint(subscription.endpoint)
  IN
  IF ~storeOk THEN Handled(500, store, "put")
  ELSE Handled(200,
               [store EXCEPT ![key] =
                  [endpoint |-> subscription.endpoint,
                   keys |-> subscription.keys,
                   email |-> IF body.email # "" THEN body.email ELSE "anonymous",
                   subscribedAt |-> now]],
               "put")

(***************************************************************************)
(* index.js:300-321: POST /api/push/subscribe.  The body is parsed and     *)
(* destructured inside the try (302-303); a body without subscription,     *)
(* endpoint or keys is answered 400 (305-307); the record is put under     *)
(* 'sub:' + hashEndpoint(endpoint) (309-315), replacing what was there; a  *)
(* throw anywhere is answered 500 (318-320).                               *)
(***************************************************************************)
HandleSubscribe(store, body, storeOk, now) ==
  IF body.kind # "object" THEN Handled(500, store, "none")
  ELSE IF body.subscription = << >> THEN Handled(400, store, "none")
  ELSE
  LET subscription == body.subscription[1]
  IN
  IF subscription.endpoint = NoEndpoint \/ subscription.keys = << >>
  THEN Handled(400, store, "none")
  ELSE
  LET key == hashEndpoint(subscription.endpoint)
  IN
  IF ~storeOk THEN Handled(500, store, "put")
  ELSE Handled(200,
               [store EXCEPT ![key] =
                  [endpoint |-> subscription.endpoint,
                   keys |-> subscription.keys[1],
                   email |-> IF body.email # "" THEN body.email ELSE "anonymous",
                   subscribedAt |-> now]],
               "put")

(***************************************************************************)
(* index.js:324-340: DELETE /api/push/subscribe.  A body without endpoint  *)
(* is answered 400 (329-331); the key of the endpoint is deleted, whether  *)
(* or not it holds a record (333-334).                                     *)
(***************************************************************************)
HandleUnsubscribe(store, body, storeOk) ==
  IF body.kind # "object" THEN Handled(500, store, "none")
  ELSE IF body.endpoint = NoEndpoint THEN Handled(400, store, "none")
  ELSE
  LET key == hashEndpoint(body.endpoint)
  IN
  IF ~storeOk THEN Handled(500, store, "delete")
  ELSE Handled(200, [store EXCEPT ![key] = NoRecord], "delete")

\* A handled request as it is recorded: the request, the store it found,
\* and what the handler did.
Logged(method, body, storeOk, done) ==
  [method |-> method, body |-> body, storeOk |-> storeOk,
   before |-> clientCalls.store, status |-> done.status, op |-> done.op]

SubscribeCall ==
  /\ Len(clientCalls.handled) < MaxRequests
  /\ \E body \in SubscribeRequests, storeOk \in BOOLEAN :
       LET done == HandleSubscribe(clientCalls.store, body, storeOk,
                                   Len(clientCalls.handled) + 1)
       IN  /\ storeOk \/ done.op = "put"
           /\ clientCalls' =
                [store |-> done.store,
                 handled |-> Append(clientCalls.handled,
                                    Logged("POST", body, storeOk, done))]
  /\ UNCHANGED << broadcastVars, encCalls, hkdfCall, vapidCall, codecCall >>

UnsubscribeCall ==
  /\ Len(clientCalls.handled) < MaxRequests
  /\ \E body \in UnsubscribeRequests, storeOk \in BOOLEAN :
       LET done == HandleUnsubscribe(clientCalls.store, body, storeOk)
       IN  /\ storeOk \/ done.op = "delete"
           /\ clientCalls' =
                [store |-> done.store,
                 handled |-> Append(clientCalls.handled,
                                    Logged("DELETE", body, storeOk, done))]
  /\ UNCHANGED << broadcastVars, encCalls, hkdfCall, vapidCall, codecCall >>

SpecClient == InitCalls /\ [][SubscribeCall \/ UnsubscribeCall]_vars

(***************************************************************************)
(* Properties of one broadcast.                                            *)
(***************************************************************************)
Answered(n)   == answer[n] # << >>
LastAnswer(n) == answer[n][Len(answer[n])]
Is2xx(a)      == a # NetworkError /\ a >= 200 /\ a < 300
IsGone(a)     == a = 404 \/ a = 410
Counted(o)    == Cardinality({ n \in KeyNames : outcome[n] = o })
Summary       == tpc = "returned" /\ response.status = 200

\* C1: a subscription whose POST answers 404 or 410 takes the Expired branch,
\* is counted in `expired`, and PUSH_SUBSCRIPTIONS.delete is called for its
\* key once the task goes on, and never more than once.
C1_ExpiredDeletedExactlyOnce ==
  /\ expired = Counted("Expired")
  /\ Summary => response.expired = Counted("Expired")
  /\ \A n \in KeyNames :
       /\ deleteCalls[n] <= 1
       /\ (Answered(n) /\ IsGone(LastAnswer(n))) =>
            /\ outcome[n] = "Expired"
            /\ pc[n] \in {"delete", "done", "rejected"}
            /\ pc[n] = "delete" => deleteCalls[n] = 0
            /\ pc[n] \in {"done", "rejected"} => deleteCalls[n] = 1

C1_Witness ==
  /\ Summary
  /\ \E n, m \in KeyNames :
       /\ answer[n] = << 410 >> /\ deleteCalls[n] = 1
       /\ answer[m] = << 404 >> /\ deleteCalls[m] = 1
       /\ response.expired = 2

\* C2: a subscription whose POST answers with a status other than 2xx, 404
\* or 410, or whose fetch fails, takes the Transient branch, is counted in
\* `failed`, gets no delete call, and its record stays in the store as read.
C2_TransientKept ==
  /\ failed = Counted("Transient")
  /\ Summary => response.failed = Counted("Transient")
  /\ \A n \in KeyNames :
       (Answered(n) /\ ~Is2xx(LastAnswer(n)) /\ ~IsGone(LastAnswer(n))) =>
            /\ outcome[n] = "Transient"
            /\ pc[n] = "done"
            /\ deleteCalls[n] = 0
            /\ PUSH_SUBSCRIPTIONS[n] # NoRecord
            /\ PUSH_SUBSCRIPTIONS[n] = subData[n]

C2_Witness ==
  /\ Summary
  /\ \E n, m \in KeyNames :
       /\ answer[n] = << 500 >> /\ outcome[n] = "Transient"
       /\ answer[m] = << NetworkError >> /\ outcome[m] = "Transient"
       /\ PUSH_SUBSCRIPTIONS[n] = subData[n] /\ PUSH_SUBSCRIPTIONS[m] = subData[m]
       /\ response.failed = 2

\* C3: a subscription whose POST answers 2xx takes the Delivered branch, is
\* counted in `sent`, gets no delete call, and its record is unchanged.
C3_DeliveredUntouched ==
  /\ sent = Counted("Delivered")
  /\ Summary => response.sent = Counted("Delivered")
  /\ \A n \in KeyNames :
       (Answered(n) /\ Is2xx(LastAnswer(n))) =>
            /\ outcome[n] = "Delivered"
            /\ pc[n] = "done"
            /\ deleteCalls[n] = 0
            /\ PUSH_SUBSCRIPTIONS[n] # NoRecord
            /\ PUSH_SUBSCRIPTIONS[n] = subData[n]

C3_Witness ==
  /\ Summary
  /\ \E n, m \in KeyNames :
       /\ answer[n] = << 200 >> /\ answer[m] = << 201 >>
       /\ deleteCalls[n] = 0 /\ deleteCalls[m] = 0
       /\ response.sent = 2

\* C4: once tasks have been started, the trigger never ends in an error: it
\* answers with the summary of the counters whatever went wrong in a task.
C4_AlwaysSummary ==
  (tpc = "returned" /\ listed # {}) => response.status = 200

\* The send unit of a subscription (encrypt, sign, POST) failed.
UnitFailed(n) ==
  /\ outcome[n] = "Transient"
  /\ \/ posts[n] = 0
     \/ Answered(n) /\ LastAnswer(n) = NetworkError
\* The send unit of a read subscription is able to build its request.
UnitBuilds(n) ==
  encryptPayload(subData[n], payloadLen).ok /\ createVapidAuth(subData[n]).ok

\* C5: when the send unit of one subscription fails (and no store call
\* throws), the trigger still answers with the summary, and every other
\* listed subscription has been attempted and counted: it has an outcome,
\* and it got its POST unless its own request could not be built.
C5_FailureIsolated ==
  (tpc = "returned" /\ storeErrors = 0 /\ \E i \in listed : UnitFailed(i)) =>
     /\ response.status = 200
     /\ response.sent + response.failed + response.expired = Cardinality(listed)
     /\ \A j \in listed :
          /\ pc[j] = "done"
          /\ outcome[j] # "None"
          /\ UnitBuilds(j) => posts[j] = 1 /\ Answered(j)

C5_Witness ==
  /\ Summary
  /\ \E i, j \in listed \ listResult.keys :
       /\ i # j
       /\ UnitFailed(i) /\ posts[i] = 0 /\ cryptoOps[i] # << >>
       /\ posts[j] = 1 /\ outcome[j] = "Delivered"
  /\ \E k \in listResult.keys : posts[k] = 1 /\ outcome[k] = "Expired"

\* Listed keys whose record was present when the task read it.
ReadPresent == { n \in listed : subData[n] # NoRecord }

\* C6: every subscription whose record was read contributes to exactly one
\* of the three counters, and a key whose record is absent when read to
\* none: in the summary, sent + failed + expired is the number of listed keys
\* whose record was present when read, over all pages and for every order in
\* which the sends complete.
C6_CountersPartition ==
  /\ sent = Counted("Delivered")
  /\ failed = Counted("Transient")
  /\ expired = Counted("Expired")
  /\ \A n \in KeyNames :
       /\ outcome[n] # "None" => n \in ReadPresent
       /\ pc[n] = "skipped" => (outcome[n] = "None" /\ n \in listed \ ReadPresent)
  /\ Summary =>
       /\ response.sent + response.failed + response.expired = Cardinality(ReadPresent)
       /\ response.sent = sent /\ response.failed = failed /\ response.expired = expired
       /\ \A n \in ReadPresent : outcome[n] # "None"

C6_Witness ==
  /\ Summary
  /\ Cardinality(listed) = 3 /\ listResult.keys # listed
  /\ \E n \in listed : pc[n] = "skipped"
  /\ response.sent = 1 /\ response.expired = 1 /\ response.failed = 0

\* C7: within one trigger invocation at most one POST is issued per
\* subscription, whatever the answer; a task that got its answer never
\* returns to sending.
C7_NoRetry ==
  \A n \in KeyNames :
    /\ posts[n] <= 1
    /\ Len(answer[n]) <= 1
    /\ Answered(n) => pc[n] \in {"delete", "done", "rejected"}

C7_Witness ==
  /\ Summary
  /\ \E n, m \in KeyNames :
       /\ n # m
       /\ answer[n] = << 500 >> /\ posts[n] = 1
       /\ answer[m] = << NetworkError >> /\ posts[m] = 1

\* C8: a subscription whose decoded p256dh is not 65 bytes long, or whose
\* decoded auth is not 16 bytes long, is rejected and no request is ever
\* issued to its endpoint.
C8_BadKeyLengthsNoRequest ==
  \A n \in KeyNames :
    (subData[n] # NoRecord /\ pc[n] \notin {"get", "send"}
       /\ (subData[n].p256dhLen # PointLen \/ subData[n].authLen # 16)) =>
      /\ posts[n] = 0
      /\ outcome[n] = "Transient"

\* C9: every wire record POSTed by a broadcast carries a plaintext that fits
\* the record: plaintext + delimiter + tag within the record size.
C9_PostedPlaintextFits ==
  \A n \in KeyNames :
    posts[n] > 0 => wire[n].plainLen + 1 + TagLen <= RecordSize

\* The preconditions of the encryption: key lengths and plaintext size.
Precondition(subscription, plainLen) ==
  /\ subscription.hasKeys
  /\ subscription.p256dhLen = PointLen
  /\ subscription.isPoint
  /\ subscription.authLen = 16
  /\ plainLen + 1 + TagLen <= RecordSize

\* C10: for a subscription or plaintext that violates a precondition,
\* encryptPayload makes no Web Crypto call before it fails, and the stored
\* record is left untouched.
C10_ValidationBeforeCrypto ==
  \A n \in KeyNames :
    (subData[n] # NoRecord /\ pc[n] \notin {"get", "send"}
       /\ ~Precondition(subData[n], payloadLen)) =>
      /\ cryptoOps[n] = << >>
      /\ posts[n] = 0
      /\ PUSH_SUBSCRIPTIONS[n] = subData[n]

\* C11: the wait for a push service is bounded, so that a send to a service
\* that never answers still ends and the broadcast returns.
C11_BroadcastReturns == <>(tpc = "returned")

\* C12: a step of the broadcast never writes the content of a record: each
\* record of the store is left as it is or deleted.
C12_OnlyDeletes ==
  [][\A n \in KeyNames :
        \/ PUSH_SUBSCRIPTIONS'[n] = PUSH_SUBSCRIPTIONS[n]
        \/ PUSH_SUBSCRIPTIONS'[n] = NoRecord]_vars

C12_Witness ==
  /\ Summary
  /\ \E n, m \in KeyNames :
       /\ deleteCalls[n] = 1 /\ subData[n] # NoRecord /\ PUSH_SUBSCRIPTIONS[n] = NoRecord
       /\ deleteCalls[m] = 0 /\ posts[m] = 1
       /\ PUSH_SUBSCRIPTIONS[m] # NoRecord /\ PUSH_SUBSCRIPTIONS[m] = subData[m]

\* C13: the delete of the broadcast removes the record its task read, never a
\* record put under the key after that read, and it comes only after a 404 or
\* 410 answer for that key.
C13_DeleteRemovesWhatWasRead ==
  [][\A n \in KeyNames :
        deleteCalls'[n] = deleteCalls[n] + 1 =>
          /\ Answered(n) /\ IsGone(LastAnswer(n))
          /\ PUSH_SUBSCRIPTIONS[n] \in {NoRecord, subData[n]}]_vars

(***************************************************************************)
(* The receiving side of the protocol (RFC 8291, RFC 8188), as the         *)
(* reference against which the wire record is judged.                      *)
(***************************************************************************)
\* The key derivation of the protocol, one block of output.
Derive(salt, inputKeyMaterial, info, length) ==
  LET pseudoRandomKey == HMAC(IF salt = << >> THEN Zeros(32) ELSE salt,
                              inputKeyMaterial)
      output == HMAC(pseudoRandomKey, info \o << 1 >>)
  IN  SubSeq(output, 1, length)

\* Authenticated decryption: the tag is checked before anything is returned.
AesGcmDecrypt(key, iv, data) ==
  IF Len(data) < TagLen THEN [ok |-> FALSE, bytes |-> << >>]
  ELSE LET seed == GcmSeed(key, iv)
           n    == Len(data) - TagLen
           ciphertext == SubSeq(data, 1, n)
       IN  IF SubSeq(data, n + 1, Len(data)) # GcmTag(seed, ciphertext)
           THEN [ok |-> FALSE, bytes |-> << >>]
           ELSE [ok |-> TRUE,
                 bytes |-> [i \in 1..n |->
                              (ciphertext[i] + 256 - GcmStream(seed, i)) % 256]]

\* The key and nonce of a record, from the salt and the sender key of its
\* header and the secrets of the receiver.
RecordKeys(salt, senderKey, receiver) ==
  LET sender == importKey(senderKey)
      shared == deriveBits(sender.x, receiver)
      ikm    == Derive(AuthSecret(receiver), shared,
                       Text_WebPushInfo \o exportKey(receiver) \o senderKey, 32)
  IN  [ok    |-> sender.ok,
       cek   |-> Derive(salt, ikm, Text_cekInfo, 16),
       nonce |-> Derive(salt, ikm, Text_nonceInfo, 12)]

\* The position of the last byte of s[1..i] that is not zero, or 0.
RECURSIVE LastNonZero(_, _)
LastNonZero(s, i) ==
  IF i = 0 THEN 0 ELSE IF s[i] # 0 THEN i ELSE LastNonZero(s, i - 1)

\* The reference decryptor: header, key agreement, the two derivations,
\* decryption of the single record, removal of padding and delimiter.
ReferenceDecrypt(body, receiver) ==
  LET Failed == [ok |-> FALSE, plaintext |-> << >>]
  IN
  IF Len(body) < 21 THEN Failed
  ELSE
  LET salt  == SubSeq(body, 1, 16)
      rs    == ((body[17] * 256 + body[18]) * 256 + body[19]) * 256 + body[20]
      idlen == body[21]
  IN
  IF Len(body) < 21 + idlen \/ body[17] > 127 THEN Failed
  ELSE
  LET senderKey == SubSeq(body, 22, 21 + idlen)
      record    == SubSeq(body, 22 + idlen, Len(body))
      keys      == RecordKeys(salt, senderKey, receiver)
  IN
  IF ~keys.ok \/ rs < TagLen + 2 \/ Len(record) > rs THEN Failed
  ELSE
  LET plain == AesGcmDecrypt(keys.cek, keys.nonce, record)
      mark  == LastNonZero(plain.bytes, Len(plain.bytes))
  IN
  IF ~plain.ok \/ mark = 0 THEN Failed
  ELSE IF plain.bytes[mark] # 2 THEN Failed
  ELSE [ok |-> TRUE, plaintext |-> SubSeq(plain.bytes, 1, mark - 1)]

Succeeded(i) == i \in 1..Len(encCalls) /\ encCalls[i].result.ok

\* C14: every call of the encryption generates its own ephemeral key pair and
\* its own 16-byte salt: no two calls share the key or the salt, and no two
\* calls return the same wire bytes, also for the same subscription and
\* plaintext.
C14_FreshKeyAndSaltPerCall ==
  \A i, j \in 1..Len(encCalls) :
    i < j =>
      /\ encCalls[i].serverScalar # encCalls[j].serverScalar
      /\ (Succeeded(i) /\ Succeeded(j)) =>
           /\ Len(encCalls[i].salt) = 16 /\ Len(encCalls[j].salt) = 16
           /\ SubSeq(encCalls[i].result.body, 1, 16)
                # SubSeq(encCalls[j].result.body, 1, 16)
           /\ SubSeq(encCalls[i].result.body, 22, 86)
                # SubSeq(encCalls[j].result.body, 22, 86)
           /\ encCalls[i].result.body # encCalls[j].result.body

C14_Witness ==
  /\ Succeeded(1) /\ Succeeded(2)
  /\ encCalls[1].receiver = encCalls[2].receiver
  /\ encCalls[1].payload = encCalls[2].payload
  /\ Len(encCalls[1].payload) = 34

\* C15: the wire body is salt (16 bytes) || 0,0,16,0 (4096 as a 4-byte
\* big-endian integer) || 65 || the 65-byte ephemeral public key || ciphertext
\* with tag, and the ciphertext is the one made with the key and nonce
\* derived from the salt and the public key that stand in the header.
C15_WireLayout ==
  \A i \in 1..Len(encCalls) :
    Succeeded(i) =>
      LET call == encCalls[i]
          body == call.result.body
          n    == Len(call.payload)
          keys == RecordKeys(SubSeq(body, 1, 16), SubSeq(body, 22, 86),
                             call.receiver)
      IN  /\ Len(body) = 16 + 4 + 1 + 65 + (n + 1 + TagLen)
          /\ SubSeq(body, 1, 16) = call.salt
          /\ SubSeq(body, 17, 20) = << 0, 0, 16, 0 >>
          /\ body[21] = 65
          /\ SubSeq(body, 22, 86) = exportKey(call.serverScalar)
          /\ SubSeq(body, 87, Len(body))
               = AesGcmEncrypt(keys.cek, keys.nonce, call.payload \o << 2 >>)

C15_Witness ==
  \E i \in 1..Len(encCalls) :
    /\ Succeeded(i)
    /\ Len(encCalls[i].payload) = 34
    /\ Len(encCalls[i].result.body) = 137

\* C17: the reference decryptor, holding the private key and the auth secret
\* of the subscription, recovers the plaintext exactly from the wire record
\* of every successful call, for the lengths 0, 1, 34 and 4000.
C17_RoundTrip ==
  \A i \in 1..Len(encCalls) :
    Succeeded(i) =>
      ReferenceDecrypt(encCalls[i].result.body, encCalls[i].receiver)
        = [ok |-> TRUE, plaintext |-> encCalls[i].payload]

C17_Witness ==
  /\ Succeeded(1) /\ Succeeded(2)
  /\ Len(encCalls[1].payload) = 4000
  /\ Len(encCalls[2].payload) = 0
  /\ ReferenceDecrypt(encCalls[1].result.body, encCalls[1].receiver).ok

Origin(href) ==
  LET slashes == {i \in 1..Len(href) : href[i] = 47}
      third   == Min({i \in slashes : Cardinality({j \in slashes : j < i}) = 2})
  IN  SubSeq(href, 1, third - 1)

EndpointOrigins == [endpoint \in Endpoints |-> Origin(Href(endpoint))]

\* C18: for every POST of a broadcast, the audience of the token sent with it
\* is scheme + '//' + host of the endpoint the POST goes to.
C18_AudienceIsDestinationOrigin ==
  \A n \in KeyNames :
    posts[n] > 0 =>
      /\ wire[n].to = subData[n].endpoint
      /\ wire[n].aud = EndpointOrigins[wire[n].to]

C18_Witness ==
  /\ Summary
  /\ \E n, m, k \in KeyNames :
       /\ n # k
       /\ posts[n] = 1 /\ posts[m] = 1 /\ posts[k] = 1
       /\ wire[n].aud = wire[k].aud
       /\ wire[n].aud # wire[m].aud

(***************************************************************************)
(* Reading an authorization header value, as a push service does.          *)
(***************************************************************************)
IndexOf(text, pattern) ==
  LET hits == {i \in 1..(Len(text) - Len(pattern) + 1) :
                 SubSeq(text, i, i + Len(pattern) - 1) = pattern}
  IN  IF hits = {} THEN 0 ELSE Min(hits)

RECURSIVE ReadNumber(_, _, _)
ReadNumber(text, i, acc) ==
  IF i <= Len(text) /\ text[i] >= 48 /\ text[i] <= 57
  THEN ReadNumber(text, i + 1, acc * 10 + (text[i] - 48))
  ELSE acc

IsBase64Url(text) ==
  /\ text # << >>
  /\ \A i \in 1..Len(text) : B64Val(text[i]) >= 0 \/ text[i] \in {45, 95}
  /\ \A i \in 1..Len(text) : text[i] \notin {43, 47}

\* The parts of `vapid t=<token>, k=<key>`: the token, its segments and the
\* key, or ok = FALSE when the value has another form.
ParseAuthorization(value) ==
  LET comma == IndexOf(value, Text_k)
      token == SubSeq(value, Len(Text_vapid) + 1, comma - 1)
      dots  == {i \in 1..Len(token) : token[i] = 46}
  IN  IF \/ Len(value) < Len(Text_vapid)
         \/ SubSeq(value, 1, Len(Text_vapid)) # Text_vapid
         \/ comma = 0
         \/ Cardinality(dots) # 2
      THEN [ok |-> FALSE]
      ELSE [ok |-> TRUE,
            header    |-> SubSeq(token, 1, Min(dots) - 1),
            claims    |-> SubSeq(token, Min(dots) + 1, Max(dots) - 1),
            signature |-> SubSeq(token, Max(dots) + 1, Len(token)),
            k         |-> SubSeq(value, comma + Len(Text_k), Len(value))]

\* Verification of a signature r || s under the public key with coordinate
\* publicX: Generator^s = r * publicX^e for the digest e of the message.
EcdsaVerify(publicX, data, signature) ==
  /\ Len(signature) = 64
  /\ ModExp(GroupGenerator, signature[64])
       = (signature[32] * ModExp(publicX, Digest(data))) % GroupPrime

\* The value of "exp" in a claims text.
ExpOf(claims) ==
  LET key == << 34, 101, 120, 112, 34, 58 >>    \* '"exp":'
      at  == IndexOf(claims, key)
  IN  IF at = 0 THEN -1 ELSE ReadNumber(claims, at + Len(key), 0)

\* C19: the exp claim of every token built is the build time in whole
\* seconds plus 43200 (12 hours), hence less than 24 hours ahead.
C19_ExpiryIsTwelveHours ==
  vapidCall.called =>
    LET parsed == ParseAuthorization(vapidCall.result.authorization)
        exp    == ExpOf(base64UrlDecode(parsed.claims).bytes)
        built  == vapidCall.now \div 1000
    IN  /\ vapidCall.result.ok /\ parsed.ok
        /\ exp = built + 43200
        /\ exp - built < 86400

C19_Witness ==
  /\ vapidCall.called
  /\ vapidCall.now % 1000 # 0
  /\ vapidCall.now \div 1000 > 86400
  /\ ExpOf(base64UrlDecode(ParseAuthorization(vapidCall.result.authorization).claims).bytes)
       = (vapidCall.now \div 1000) + 43200

\* C20: the header value is `vapid t=<token>, k=<sender public key in
\* base64url>`; the token has three '.'-joined base64url segments, the first
\* the JWT header, and the third is a signature, valid under the sender's
\* key, of the bytes of the first two segments joined by '.'.
C20_AuthorizationShape ==
  vapidCall.called =>
    LET parsed == ParseAuthorization(vapidCall.result.authorization)
        sender == importKey(base64UrlDecode(parsed.k).bytes)
    IN  /\ vapidCall.result.ok /\ parsed.ok
        /\ IsBase64Url(parsed.header) /\ IsBase64Url(parsed.claims)
        /\ IsBase64Url(parsed.signature)
        /\ base64UrlDecode(parsed.header).bytes = Text_jwtHeader
        /\ parsed.k = VAPID_PUBLIC_KEY
        /\ sender.ok /\ sender.x = ModExp(GroupGenerator, VapidScalar)
        /\ EcdsaVerify(sender.x, parsed.header \o << 46 >> \o parsed.claims,
                       base64UrlDecode(parsed.signature).bytes)

C20_Witness ==
  /\ vapidCall.called /\ vapidCall.result.ok
  /\ vapidCall.endpoint = 2
  /\ Len(base64UrlDecode(ParseAuthorization(vapidCall.result.authorization).signature).bytes) = 64

\* C21: decoding the encoding of a buffer gives the buffer back, for the
\* three padding classes; the encoded text holds no '+', '/' or '='; and the
\* decoder rebuilds the stripped padding, so that the text it hands to the
\* standard base64 decoder has a length that is a multiple of four.
C21_CodecRoundTrip ==
  codecCall.called =>
    /\ codecCall.result = [ok |-> TRUE, bytes |-> codecCall.buffer]
    /\ \A i \in 1..Len(codecCall.text) : codecCall.text[i] \notin {43, 47, 61}
    /\ Len(codecCall.atobInput) % 4 = 0

\* The part of C21 that is about values only: the round trip and the
\* alphabet of the text.
CodecValuesRoundTrip ==
  codecCall.called =>
    /\ codecCall.result = [ok |-> TRUE, bytes |-> codecCall.buffer]
    /\ \A i \in 1..Len(codecCall.text) : codecCall.text[i] \notin {43, 47, 61}

\* A step of the send unit of key n: from the call of sendPushNotification
\* to its result.
UnitStep(n) == pc[n] \in {"send", "fetch"} /\ pc'[n] # pc[n]

\* What a unit of key m holds.
UnitState(m) ==
  << pc[m], subData[m], posts[m], answer[m], outcome[m], cryptoOps[m],
     wire[m], deleteCalls[m] >>

UnitRan(n) == subData[n] # NoRecord /\ pc[n] \notin {"idle", "get", "send"}

\* C23: the request of a subscription goes out whole or not at all: a POST
\* was issued only where both the encryption and the signing succeeded, and
\* it carries the complete record and the authorization; where either failed
\* nothing was sent, the message counts as failed, and the broadcast goes on
\* to its summary.
C23_AllOrNothing ==
  /\ \A n \in KeyNames :
       /\ posts[n] > 0 =>
            /\ UnitBuilds(n)
            /\ Len(cryptoOps[n]) > 0 /\ cryptoOps[n][Len(cryptoOps[n])] = "encrypt"
            /\ wire[n].bodyLen = HeaderLen + (wire[n].plainLen + 1) + TagLen
            /\ wire[n].plainLen = payloadLen
            /\ wire[n].to = subData[n].endpoint
            /\ wire[n].aud = createVapidAuth(subData[n]).aud /\ wire[n].aud # << >>
       /\ (UnitRan(n) /\ ~UnitBuilds(n)) =>
            /\ posts[n] = 0 /\ wire[n] = NoRequest /\ answer[n] = << >>
            /\ outcome[n] = "Transient" /\ pc[n] = "done"
  /\ (/\ tpc = "returned" /\ storeErrors = 0
      /\ \E n \in KeyNames : UnitRan(n) /\ ~UnitBuilds(n)) =>
       /\ response.status = 200
       /\ \A m \in listed : UnitBuilds(m) => posts[m] = 1

\* One message aborted in encryption, one in signing, one sent, in a
\* broadcast that reached its summary.
C23_Witness ==
  /\ Summary
  /\ \E i, j, k \in listed :
       /\ UnitRan(i) /\ ~encryptPayload(subData[i], payloadLen).ok /\ posts[i] = 0
       /\ UnitRan(j) /\ encryptPayload(subData[j], payloadLen).ok
       /\ ~createVapidAuth(subData[j]).ok /\ posts[j] = 0
       /\ posts[k] = 1 /\ outcome[k] = "Delivered"

\* The hkdf calls and the encryption of the i-th call of encryptPayload.
HkdfCalls(i) == encCalls[i].result.locals.hkdf
Encrypted(i) == encCalls[i].result.locals.encrypt

\* C24: the input keying material is hkdf(salt = the subscription's auth
\* secret, ikm = the ECDH secret of the call's ephemeral key and the
\* subscription's key, info = 'WebPush: info\0' || subscription public key
\* || ephemeral public key, 32 bytes), in this order; the secret and the
\* keys are taken here as the receiver has them.
C24_KeyingMaterial ==
  \A i \in 1..Len(encCalls) :
    Succeeded(i) =>
      LET call      == encCalls[i]
          senderKey == SubSeq(call.result.body, 22, 86)
          shared    == deriveBits(importKey(senderKey).x, call.receiver)
          first     == HkdfCalls(i)[1]
      IN  /\ first.salt = AuthSecret(call.receiver) /\ Len(first.salt) = 16
          /\ first.ikm = shared
          /\ first.ikm = deriveBits(importKey(exportKey(call.receiver)).x,
                                    call.serverScalar)
          /\ SubSeq(first.info, 1, 14)
               = << 87, 101, 98, 80, 117, 115, 104, 58, 32, 105, 110, 102, 111, 0 >>
          /\ SubSeq(first.info, 15, 79) = exportKey(call.receiver)
          /\ SubSeq(first.info, 80, 144) = senderKey
          /\ Len(first.info) = 14 + PointLen + PointLen
          /\ first.length = 32
          /\ first.okm.bytes = Derive(first.salt, first.ikm, first.info, 32)
          /\ HkdfCalls(i)[2].ikm = first.okm.bytes

\* Two calls for two receivers, so that secrets and keys differ.
C24_Witness ==
  /\ Succeeded(1) /\ Succeeded(2)
  /\ encCalls[1].receiver # encCalls[2].receiver
  /\ HkdfCalls(1)[1].info # HkdfCalls(2)[1].info
  /\ HkdfCalls(1)[1].okm.bytes # HkdfCalls(2)[1].okm.bytes

\* C25: the content encryption key (16 bytes) and the nonce (12 bytes) are
\* both made by hkdf from the call's salt and its keying material, with the
\* info strings 'Content-Encoding: aes128gcm\0' and 'Content-Encoding:
\* nonce\0'; the encryption uses exactly this key and nonce, and the salt is
\* the one in the header of the body.
C25_KeyAndNonce ==
  \A i \in 1..Len(encCalls) :
    Succeeded(i) =>
      LET call     == encCalls[i]
          body     == call.result.body
          ikmCall  == HkdfCalls(i)[1]
          cekCall  == HkdfCalls(i)[2]
          nonceCall == HkdfCalls(i)[3]
      IN  /\ cekCall.salt = SubSeq(body, 1, 16) /\ nonceCall.salt = cekCall.salt
          /\ cekCall.salt = call.salt
          /\ cekCall.ikm = ikmCall.okm.bytes /\ nonceCall.ikm = cekCall.ikm
          /\ Len(cekCall.ikm) = 32
          /\ cekCall.info =
               << 67, 111, 110, 116, 101, 110, 116, 45, 69, 110, 99, 111, 100,
                  105, 110, 103, 58, 32, 97, 101, 115, 49, 50, 56, 103, 99,
                  109, 0 >>
          /\ nonceCall.info =
               << 67, 111, 110, 116, 101, 110, 116, 45, 69, 110, 99, 111, 100,
                  105, 110, 103, 58, 32, 110, 111, 110, 99, 101, 0 >>
          /\ cekCall.info # nonceCall.info
          /\ cekCall.length = 16 /\ nonceCall.length = 12
          /\ Encrypted(i).key = Derive(cekCall.salt, cekCall.ikm, cekCall.info, 16)
          /\ Encrypted(i).iv
               = Derive(nonceCall.salt, nonceCall.ikm, nonceCall.info, 12)
          /\ Len(Encrypted(i).key) = 16 /\ Len(Encrypted(i).iv) = 12
          /\ SubSeq(body, 87, Len(body))
               = AesGcmEncrypt(Encrypted(i).key, Encrypted(i).iv, Encrypted(i).data)

\* Two calls for the same receiver: the salts differ, and with them key and
\* nonce.
C25_Witness ==
  /\ Succeeded(1) /\ Succeeded(2)
  /\ encCalls[1].receiver = encCalls[2].receiver
  /\ Encrypted(1).key # Encrypted(2).key
  /\ Encrypted(1).iv # Encrypted(2).iv

C27_HkdfLengths ==
  \A i \in 1..Len(encCalls) :
    Succeeded(i) =>
      /\ Len(HkdfCalls(i)) = 3
      /\ << HkdfCalls(i)[1].length, HkdfCalls(i)[2].length, HkdfCalls(i)[3].length >>
           = << 32, 16, 12 >>
      /\ \A c \in 1..3 :
           /\ HkdfCalls(i)[c].length <= 32
           /\ HkdfCalls(i)[c].okm.ok
           /\ Len(HkdfCalls(i)[c].okm.bytes) = HkdfCalls(i)[c].length

C27_Witness ==
  \E i \in 1..Len(encCalls) :
    /\ Succeeded(i)
    /\ Len(encCalls[i].payload) = 1
    /\ Len(HkdfCalls(i)[2].okm.bytes) = 16
    /\ Len(HkdfCalls(i)[3].okm.bytes) = 12

\* The record of key n was in the store until the trigger returned, or until
\* the broadcast itself took it out.
StoredThroughout(n) == PUSH_SUBSCRIPTIONS[n] # NoRecord \/ deleteCalls[n] > 0

\* Key n was read and its send unit ran, once.
CoveredOnce(n) ==
  /\ n \in listed /\ subData[n] # NoRecord
  /\ pc[n] = "done" /\ outcome[n] # "None"
  /\ posts[n] <= 1 /\ Len(answer[n]) = posts[n]
  /\ UnitBuilds(n) => posts[n] = 1

\* Pages follow the cursor: at most PageLimit keys each, every page after
\* the keys listed before; a page is listed only when all tasks of the pages
\* before have settled and the listing was not complete; the summary is
\* returned with the listing complete.
PagesInOrder ==
  /\ Cardinality(listResult.keys) <= PageLimit
  /\ \A n \in listResult.keys, k \in listed \ listResult.keys : k < n
  /\ tpc = "list" => \A n \in listed : pc[n] \in {"done", "skipped"}
  /\ (tpc = "list" /\ listed # {}) =>
       ~listResult.list_complete /\ cursor = listResult.cursor
  /\ Summary => listResult.list_complete

\* C28: when a trigger that started its broadcast has returned, every
\* subscription that was in the store throughout has been read and sent to
\* exactly once, over all pages; pages are listed in cursor order, each
\* after the sends of the one before have settled, up to the page on which
\* the store reports the listing complete.
C28_ExactlyOnceCoverage ==
  /\ (tpc = "returned" /\ request.kind # "null") =>
       \A n \in KeyNames : StoredThroughout(n) => CoveredOnce(n)
  /\ PagesInOrder

\* The same, for the triggers in which no call of the store throws.
CoverageBarringStoreErrors ==
  /\ (tpc = "returned" /\ request.kind # "null" /\ storeErrors = 0) =>
       \A n \in KeyNames : StoredThroughout(n) => CoveredOnce(n)
  /\ PagesInOrder

\* A broadcast over two pages that covered three subscriptions.
CoverageOverTwoPages ==
  /\ Summary
  /\ Cardinality(listed) = 3 /\ Cardinality(listResult.keys) = 1
  /\ \A n \in KeyNames : StoredThroughout(n) /\ CoveredOnce(n)

\* The requests handled so far, and the store after the i-th of them.
HandledRequests == clientCalls.handled
StoreAfter(i) ==
  IF i < Len(HandledRequests) THEN HandledRequests[i + 1].before
  ELSE clientCalls.store

\* The endpoint a successful request was about.
EndpointOfRequest(r) ==
  IF r.method = "POST" THEN r.body.subscription[1].endpoint ELSE r.body.endpoint

\* The successful requests for endpoint e, by their position.
SuccessfulFor(e) ==
  { i \in 1..Len(HandledRequests) :
      HandledRequests[i].status = 200 /\ EndpointOfRequest(HandledRequests[i]) = e }

\* C29: after any sequence of subscribe and unsubscribe requests, the store
\* holds at most one record per endpoint, under the key of the endpoint; the
\* record is there exactly when the last successful request for the endpoint
\* was a subscribe, with the keys and the email of that request ('anonymous'
\* when it gave none); an unsubscribe for an endpoint without record is
\* answered 200 and leaves the store as it was.
C29_StoreFollowsLastRequest ==
  /\ \A e \in ClientEndpoints :
       LET records == { k \in KeyNames :
                          /\ clientCalls.store[k] # NoRecord
                          /\ clientCalls.store[k].endpoint = e }
           stored  == clientCalls.store[hashEndpoint(e)]
       IN  /\ Cardinality(records) <= 1
           /\ records \subseteq { hashEndpoint(e) }
           /\ IF SuccessfulFor(e) = {}
              THEN records = {}
              ELSE LET last == HandledRequests[Max(SuccessfulFor(e))]
                   IN  IF last.method = "POST"
                       THEN /\ records = { hashEndpoint(e) }
                            /\ stored.endpoint = e
                            /\ stored.keys = last.body.subscription[1].keys[1]
                            /\ stored.email = IF last.body.email # ""
                                              THEN last.body.email
                                              ELSE "anonymous"
                       ELSE records = {}
  /\ \A i \in 1..Len(HandledRequests) :
       LET r == HandledRequests[i]
       IN  (/\ r.method = "DELETE" /\ r.body.kind = "object" /\ r.storeOk
            /\ r.body.endpoint # NoEndpoint
            /\ r.before[hashEndpoint(r.body.endpoint)] = NoRecord) =>
             r.status = 200 /\ StoreAfter(i) = r.before

\* A subscribe, a second subscribe for the same endpoint with other keys,
\* and an unsubscribe for an endpoint that has no record.
C29_Witness ==
  /\ Len(HandledRequests) = 3
  /\ HandledRequests[1].method = "POST" /\ HandledRequests[1].status = 200
  /\ HandledRequests[2].method = "POST" /\ HandledRequests[2].status = 200
  /\ EndpointOfRequest(HandledRequests[1]) = EndpointOfRequest(HandledRequests[2])
  /\ HandledRequests[1].body.subscription[1].keys
       # HandledRequests[2].body.subscription[1].keys
  /\ HandledRequests[3].method = "DELETE" /\ HandledRequests[3].status = 200
  /\ EndpointOfRequest(HandledRequests[3]) # EndpointOfRequest(HandledRequests[1])

\* A body that lacks what the handler asks for.
LacksMember(r) ==
  /\ r.body.kind = "object"
  /\ IF r.method = "POST"
     THEN \/ r.body.subscription = << >>
          \/ r.body.subscription[1].endpoint = NoEndpoint
          \/ r.body.subscription[1].keys = << >>
     ELSE r.body.endpoint = NoEndpoint

=============================================================================
